---- MODULE Spec2Model ----
(***************************************************************************)
(* Entity-resolution engine (BDGD/B3 clients -> CNPJ registry), geocode    *)
(* assisted refine, and the CNPJ bulk loader.                              *)
(*                                                                         *)
(* Text is a sequence of one-character strings; NONE stands for Python's   *)
(* None / SQL NULL.  Scores are integers in hundredths of a point (the     *)
(* code rounds every component to two decimals and the match table stores  *)
(* NUMERIC(_,2)).                                                          *)
(*                                                                         *)
(* Operators that read an argument more than once bind it first:           *)
(*     Op(x) == CHOOSE r \in {body(v) : v \in {x}} : TRUE                   *)
(* is body(x) with x evaluated once.                                       *)
(***************************************************************************)
EXTENDS Integers, Sequences, FiniteSets, TLC

\* ------------------------------------------------------------------ text

NONE == <<"NONE">>

Truthy(x) == x # NONE /\ x # <<>>

DigitChars == {"0", "1", "2", "3", "4", "5", "6", "7", "8", "9"}

LowerChars == <<"a", "b", "c", "d", "e", "f", "g", "h", "i", "j", "k", "l", "m",
                "n", "o", "p", "q", "r", "s", "t", "u", "v", "w", "x", "y", "z">>

UpperChars == <<"A", "B", "C", "D", "E", "F", "G", "H", "I", "J", "K", "L", "M",
                "N", "O", "P", "Q", "R", "S", "T", "U", "V", "W", "X", "Y", "Z">>

Range(s) == {s[i] : i \in DOMAIN s}

Min(a, b) == IF a <= b THEN a ELSE b

Max(a, b) == IF a >= b THEN a ELSE b

\* str.upper() on one character
UpperSwapCase(ch) ==
    IF \E i \in DOMAIN LowerChars : LowerChars[i] = ch
    THEN UpperChars[CHOOSE i \in DOMAIN LowerChars : LowerChars[i] = ch]
    ELSE IF \E i \in DOMAIN UpperChars : UpperChars[i] = ch
    THEN LowerChars[CHOOSE i \in DOMAIN UpperChars : UpperChars[i] = ch]
    ELSE ch

Upper(ch) ==
    IF \E i \in DOMAIN LowerChars : LowerChars[i] = ch
    THEN UpperChars[CHOOSE i \in DOMAIN LowerChars : LowerChars[i] = ch]
    ELSE ch

\* regex classes \s and \w
IsSpace(ch) == ch = " "

IsWord(ch) == ch \in DigitChars \/ ch \in Range(LowerChars) \/ ch \in Range(UpperChars) \/ ch = "_"

MapSeq(s, F(_)) == CHOOSE r \in {[i \in DOMAIN v |-> F(v[i])] \o <<>> : v \in {s}} : TRUE

RECURSIVE LStrip(_)
LStrip(s) ==
    CHOOSE r \in {IF v # <<>> /\ IsSpace(Head(v)) THEN LStrip(Tail(v)) ELSE v : v \in {s}} : TRUE

RECURSIVE RStrip(_)
RStrip(s) ==
    CHOOSE r \in {IF v # <<>> /\ IsSpace(v[Len(v)]) THEN RStrip(SubSeq(v, 1, Len(v) - 1)) ELSE v :
                    v \in {s}} : TRUE

\* str.strip()
Strip(s) == RStrip(LStrip(s))

\* re.sub(r"[^\w\s]", " ", t)
PunctToSpace(ch) == IF IsWord(ch) \/ IsSpace(ch) THEN ch ELSE " "

\* re.sub(r"\s+", " ", t)
RECURSIVE CollapseSpaces(_)
CollapseSpaces(s) ==
    CHOOSE r \in {IF v = <<>> THEN <<>>
                  ELSE IF IsSpace(Head(v))
                       THEN <<" ">> \o CollapseSpaces(LStrip(v))
                       ELSE <<Head(v)>> \o CollapseSpaces(Tail(v)) : v \in {s}} : TRUE

\* re.sub(r"\D", "", s)
OnlyDigits(s) == SelectSeq(s, LAMBDA ch : ch \in DigitChars)

\* s[:n]
Prefix(s, n) == CHOOSE r \in {SubSeq(v, 1, Min(n, Len(v))) : v \in {s}} : TRUE

\* str.split(): the set of whitespace-separated words
RECURSIVE SplitFrom(_, _, _)
SplitFrom(s, cur, acc) ==
    CHOOSE r \in
        {IF v = <<>> THEN (IF c = <<>> THEN a ELSE a \cup {c})
         ELSE IF IsSpace(Head(v))
              THEN SplitFrom(Tail(v), <<>>, IF c = <<>> THEN a ELSE a \cup {c})
              ELSE SplitFrom(Tail(v), c \o <<Head(v)>>, a) :
            v \in {s}, c \in {cur}, a \in {acc}} : TRUE

SplitWords(s) == SplitFrom(s, <<>>, {})

normalizar_texto(texto) ==
    CHOOSE r \in
        {IF ~Truthy(v) THEN NONE
         ELSE CHOOSE t \in {IF t3 = <<>> THEN NONE ELSE t3 :
                    t3 \in {Strip(CollapseSpaces(MapSeq(MapSeq(Strip(v), Upper),
                                                         PunctToSpace)))}} : TRUE :
            v \in {texto}} : TRUE

normalizar_cep(cep) ==
    CHOOSE r \in
        {IF ~Truthy(v) THEN NONE
         ELSE CHOOSE c \in {IF d = <<>> THEN NONE ELSE d :
                    d \in {Prefix(OnlyDigits(Strip(v)), 8)}} : TRUE :
            v \in {cep}} : TRUE

\* round(num / den, 0) the way Python rounds a float: to nearest, ties to even
RoundDiv(num, den) ==
    CHOOSE x \in
        {IF 2 * (n % d) < d THEN n \div d
         ELSE IF 2 * (n % d) > d THEN n \div d + 1
         ELSE IF (n \div d) % 2 = 0 THEN n \div d ELSE n \div d + 1 :
            n \in {num}, d \in {den}} : TRUE

\* {p for p in text.split() if len(p) > 2}
LongWordsOver3(text) == {p \in SplitWords(text) : Len(p) > 3}

LongWords(text) == {p \in SplitWords(text) : Len(p) > 2}

\* ---------------------------------------------------------------- scorer

score_endereco(logr_ref, num_ref, bairro_ref, cep_ref, c_logr, c_num, c_bairro, c_cep) ==
    CHOOSE r \in
        {<<\* CEP: 40 points
           IF Truthy(cep_ref) /\ Truthy(c_cep) /\ cep_ref = c_cep THEN 4000 ELSE 0,
           \* street: up to 20 points, Jaccard over the words longer than 2
           IF Truthy(logr_ref) /\ Truthy(c_logr) /\ Truthy(c_logr_norm)
              /\ p_ref # {} /\ p_cnpj # {}
           THEN RoundDiv(Cardinality(p_ref \cap p_cnpj) * 2000, Cardinality(p_ref \cup p_cnpj))
           ELSE 0,
           \* house number: 10 points
           IF Truthy(num_ref) /\ Truthy(c_num) /\ num_ref = OnlyDigits(c_num) THEN 1000 ELSE 0,
           \* neighbourhood: up to 5 points
           IF Truthy(bairro_ref) /\ Truthy(c_bairro) /\ Truthy(c_brr)
           THEN IF bairro_ref = c_brr THEN 500
                ELSE IF pb # {} /\ pc # {} /\ pb \cap pc # {}
                     THEN RoundDiv(Cardinality(pb \cap pc) * 500,
                                   Max(Cardinality(pb), Cardinality(pc)))
                     ELSE 0
           ELSE 0>> :
            c_logr_norm \in {normalizar_texto(c_logr)},
            p_ref \in {LongWords(logr_ref)},
            p_cnpj \in {LongWords(normalizar_texto(c_logr))},
            c_brr \in {normalizar_texto(c_bairro)},
            pb \in {LongWords(bairro_ref)},
            pc \in {LongWords(normalizar_texto(c_bairro))}} : TRUE

\* the tax-classification points of one candidate
score_cnae(cnae_norm, cnae_5dig, c_cnae) ==
    CHOOSE r \in
        {IF Truthy(cnae_norm) /\ Truthy(c_cnae_clean)
         THEN IF cnae_norm = c_cnae_clean THEN 2500
              ELSE IF Truthy(cnae_5dig) /\ Prefix(c_cnae_clean, 5) = cnae_5dig THEN 1500
              ELSE 0
         ELSE 0 :
            c_cnae_clean \in {IF Truthy(c_cnae) THEN Prefix(OnlyDigits(c_cnae), 7) ELSE <<>>}} :
        TRUE

\* ------------------------------------------------------------------ data

\* words and digit strings the tables below are written with
SP == <<" ">>
W_RUA == <<"R", "U", "A">>
W_DAS == <<"D", "A", "S">>
W_FLORES == <<"F", "L", "O", "R", "E", "S">>
W_AV == <<"A", "V">>
W_BRASIL == <<"B", "R", "A", "S", "I", "L">>
W_CENTRO == <<"C", "E", "N", "T", "R", "O">>
W_VILA == <<"V", "I", "L", "A">>
W_NOVA == <<"N", "O", "V", "A">>
W_JARDIM == <<"J", "A", "R", "D", "I", "M">>
W_PIRA == <<"P", "I", "R", "A">>
CEP_A == <<"1", "3", "6", "7", "0", "0", "0", "0">>
CEP_B == <<"1", "3", "6", "7", "0", "1", "0", "0">>
CEP_C == <<"0", "1", "0", "0", "1", "0", "0", "0">>
CNAE_1 == <<"4", "7", "1", "1", "3", "0", "1">>
CNAE_2 == <<"4", "7", "1", "1", "3", "0", "2">>
CNAE_3 == <<"5", "6", "1", "1", "2", "0", "1">>

DS == {"bdgd", "b3"}

\* cnpj_cache as the matching engine reads it, in table order
CnpjCache ==
    << [cnpj |-> "11111111000101", logradouro |-> W_RUA \o SP \o W_DAS \o SP \o W_FLORES,
        numero |-> <<"1", "0", "0">>, bairro |-> W_CENTRO, cep |-> CEP_A,
        municipio |-> W_PIRA, cnae_fiscal |-> CNAE_1, situacao_cadastral |-> "ATIVA"],
       [cnpj |-> "22222222000102", logradouro |-> <<"r", ".", " ">> \o W_FLORES,
        numero |-> <<"1", "0", "0", "-", "A">>, bairro |-> <<"V", "i", "l", "a", " ">> \o W_NOVA,
        cep |-> CEP_A, municipio |-> W_PIRA, cnae_fiscal |-> CNAE_2,
        situacao_cadastral |-> "ATIVA"],
       [cnpj |-> "33333333000103", logradouro |-> W_AV \o SP \o W_BRASIL,
        numero |-> <<"5", "5">>, bairro |-> W_JARDIM \o SP \o W_NOVA, cep |-> CEP_B,
        municipio |-> <<"P", "i", "r", "a">>, cnae_fiscal |-> CNAE_2,
        situacao_cadastral |-> "ATIVA"],
       [cnpj |-> "44444444000104", logradouro |-> W_AV \o SP \o W_BRASIL,
        numero |-> <<"7">>, bairro |-> NONE, cep |-> CEP_B,
        municipio |-> W_PIRA, cnae_fiscal |-> CNAE_3, situacao_cadastral |-> "ATIVA"],
       [cnpj |-> "55555555000105", logradouro |-> W_RUA \o SP \o W_BRASIL,
        numero |-> <<"9">>, bairro |-> W_CENTRO, cep |-> CEP_B,
        municipio |-> W_PIRA, cnae_fiscal |-> CNAE_3, situacao_cadastral |-> "ATIVA"],
       [cnpj |-> "66666666000106", logradouro |-> W_RUA \o SP \o W_NOVA,
        numero |-> NONE, bairro |-> W_VILA, cep |-> CEP_C,
        municipio |-> W_PIRA, cnae_fiscal |-> CNAE_2, situacao_cadastral |-> "ATIVA"],
       [cnpj |-> "77777777000107", logradouro |-> W_RUA \o SP \o W_DAS \o SP \o W_FLORES,
        numero |-> <<"1", "0", "0">>, bairro |-> W_CENTRO, cep |-> CEP_A,
        municipio |-> W_PIRA, cnae_fiscal |-> CNAE_1, situacao_cadastral |-> "BAIXADA"] >>

\* crm.cnpj_cache of the CRM database when import_cnpj.py is run later: the
\* company of "13670200" has left the register
CnpjCacheLater == SelectSeq(CnpjCache, LAMBDA r : r.cnpj # "66666666000106")

\* a registry row with nothing but a tax ID, a postal code, a municipality and a CNAE
PoolCompany(i, cep, mun, cnae) ==
    [cnpj |-> "99999999" \o ToString(100000 + i), logradouro |-> NONE, numero |-> NONE,
     bairro |-> NONE, cep |-> cep, municipio |-> mun, cnae_fiscal |-> cnae,
     situacao_cadastral |-> "ATIVA"]

\* a registry with few companies around client A1: one at A1's postal code, four at
\* the postal code the external service may answer for A1's coordinate, and one of
\* A1's municipality and CNAE with A1's address at a third postal code
CnpjCacheSparse ==
    << PoolCompany(1, CEP_A, W_PIRA, CNAE_3),
       [cnpj |-> "88888888000108", logradouro |-> W_RUA \o SP \o W_DAS \o SP \o W_FLORES,
        numero |-> <<"1", "0", "0">>, bairro |-> W_CENTRO, cep |-> CEP_C,
        municipio |-> W_PIRA, cnae_fiscal |-> CNAE_1, situacao_cadastral |-> "ATIVA"],
       PoolCompany(2, CEP_B, W_PIRA, CNAE_3), PoolCompany(3, CEP_B, W_PIRA, CNAE_3),
       PoolCompany(4, CEP_B, W_PIRA, CNAE_3), PoolCompany(5, CEP_B, W_PIRA, CNAE_3) >>

\* BATCH_SIZE of import_cnpj.py, scaled down
ImportBatchSize == 3

\* the columns of bdgd_clientes / b3_clientes that carregar_bdgd writes, by cod_id in id
\* order; coordinates are in units of 10^-5 degree
ClientesBase ==
    [ds \in DS |->
        IF ds = "bdgd"
        THEN << [cod_id |-> "A1", point_x |-> -4712342, point_y |-> -2312341,
                 logradouro_norm |-> W_RUA \o SP \o W_DAS \o SP \o W_FLORES,
                 numero_norm |-> <<"1", "0", "0">>, bairro_norm |-> W_CENTRO,
                 cep_norm |-> CEP_A, cnae_norm |-> CNAE_1,
                 cnae_5dig |-> Prefix(CNAE_1, 5), municipio_nome |-> W_PIRA],
                [cod_id |-> "A2", point_x |-> -4712338, point_y |-> -2312344,
                 logradouro_norm |-> W_AV \o SP \o W_BRASIL,
                 numero_norm |-> NONE, bairro_norm |-> W_VILA \o SP \o W_NOVA,
                 cep_norm |-> NONE, cnae_norm |-> CNAE_2,
                 cnae_5dig |-> Prefix(CNAE_2, 5), municipio_nome |-> W_PIRA],
                [cod_id |-> "A3", point_x |-> 0, point_y |-> 0,
                 logradouro_norm |-> W_AV \o SP \o W_BRASIL,
                 numero_norm |-> <<"5", "5">>, bairro_norm |-> NONE,
                 cep_norm |-> CEP_B, cnae_norm |-> NONE,
                 cnae_5dig |-> NONE, municipio_nome |-> NONE],
                [cod_id |-> "A4", point_x |-> -4712357, point_y |-> -2312349,
                 logradouro_norm |-> W_RUA \o SP \o W_NOVA,
                 numero_norm |-> NONE, bairro_norm |-> W_VILA,
                 cep_norm |-> CEP_C, cnae_norm |-> CNAE_3,
                 cnae_5dig |-> Prefix(CNAE_3, 5), municipio_nome |-> NONE] >>
        ELSE << [cod_id |-> "B1", point_x |-> -4712342, point_y |-> -2312341,
                 logradouro_norm |-> <<"R">> \o SP \o W_FLORES,
                 numero_norm |-> <<"1", "0", "0">>, bairro_norm |-> W_VILA,
                 cep_norm |-> CEP_A, cnae_norm |-> CNAE_2,
                 cnae_5dig |-> Prefix(CNAE_2, 5), municipio_nome |-> W_PIRA] >>]

CodIds(ds) == {ClientesBase[ds][i].cod_id : i \in DOMAIN ClientesBase[ds]}

\* what the external reverse-geocoding service may answer: a JSON body with an
\* "address" object, a JSON body with an "error" key, or an HTTP error / timeout
NominatimAnswers ==
    { [kind |-> "ok",
       address |-> [road |-> <<"R", "u", "a", " ", "d", "a", "s", " ">> \o W_FLORES,
                    house_number |-> <<"1", "0", "0">>, suburb |-> W_CENTRO,
                    postcode |-> <<"1", "3", "6", "7", "0", "-", "0", "0", "0">>,
                    city |-> W_PIRA, state |-> <<"S", "P">>]],
      [kind |-> "ok",
       address |-> [pedestrian |-> W_AV \o <<".">> \o SP \o W_BRASIL,
                    house_number |-> <<"5", "5">>,
                    neighbourhood |-> W_JARDIM \o SP \o W_NOVA,
                    postcode |-> CEP_B, town |-> W_PIRA,
                    state |-> <<"s", "a", "o", " ", "p", "a", "u", "l", "o">>]],
      [kind |-> "error_body"],
      [kind |-> "http_error"] }

\* ------------------------------------------------------- geocoding helpers

COORD_PRECISION == 4

MAX_CLIENTES == 100

\* f"{val:.4f}" of a coordinate given in units of 10^-5 degree: the sign the
\* formatted string starts with and its digits (in units of 10^-4 degree)
round_coord(val) ==
    <<IF val < 0 THEN "-" ELSE "",
      RoundDiv(IF val < 0 THEN -val ELSE val, 10 ^ (5 - COORD_PRECISION))>>

Get(d, k) == IF k \in DOMAIN d THEN d[k] ELSE NONE

\* Python's "a or b"
Or(a, b) == IF Truthy(a) THEN a ELSE b

\* UF_MAP, abridged to the state names the modelled answers use
UF_MAP ==
    [name \in {<<"s", "a", "o", " ", "p", "a", "u", "l", "o">>} |-> <<"S", "P">>]

UF_SIGLAS == {UF_MAP[n] : n \in DOMAIN UF_MAP}

Lower(ch) ==
    IF \E i \in DOMAIN UpperChars : UpperChars[i] = ch
    THEN LowerChars[CHOOSE i \in DOMAIN UpperChars : UpperChars[i] = ch]
    ELSE ch

extrair_uf(state) ==
    CHOOSE r \in
        {IF ~Truthy(state) THEN NONE
         ELSE IF up \in UF_SIGLAS THEN up ELSE Get(UF_MAP, lo) :
            up \in {IF Truthy(state) THEN MapSeq(Strip(state), Upper) ELSE NONE},
            lo \in {IF Truthy(state) THEN MapSeq(Strip(state), Lower) ELSE NONE}} : TRUE

\* addr.get("state") resolved to a two-letter code, else the ISO3166-2-lvl4 suffix
GeocodeUf(uf0, iso) ==
    CHOOSE r \in
        {IF Truthy(u) THEN u
         ELSE IF Truthy(i) /\ Prefix(i, 3) = <<"B", "R", "-">>
              THEN SubSeq(i, 4, Min(5, Len(i))) ELSE u :
            u \in {uf0}, i \in {iso}} : TRUE

\* the dict _reverse_geocode returns for one answer of the external service
reverse_geocode(ans) ==
    CHOOSE r \in
        {IF a.kind # "ok" THEN [status |-> "error"]
         ELSE CHOOSE d \in
                {[status |-> "success",
                  logradouro |-> normalizar_texto(Or(Or(Get(addr, "road"),
                                                        Get(addr, "pedestrian")),
                                                     Get(addr, "footway"))),
                  numero |-> Get(addr, "house_number"),
                  bairro |-> normalizar_texto(Or(Or(Get(addr, "suburb"),
                                                    Get(addr, "neighbourhood")),
                                                 Get(addr, "quarter"))),
                  cep |-> normalizar_cep(Get(addr, "postcode")),
                  municipio |-> normalizar_texto(Or(Or(Or(Get(addr, "city"),
                                                          Get(addr, "town")),
                                                       Get(addr, "village")),
                                                    Get(addr, "municipality"))),
                  uf |-> GeocodeUf(extrair_uf(Get(addr, "state")),
                                   Get(addr, "ISO3166-2-lvl4"))] :
                    addr \in {a.address}} : TRUE :
            a \in {ans}} : TRUE

\* the geo_* columns of a client row
GeoNull ==
    [logradouro |-> NONE, numero |-> NONE, bairro |-> NONE, cep |-> NONE,
     municipio |-> NONE, uf |-> NONE, status |-> NONE]

\* INSERT INTO geocode_cache ... ON CONFLICT (lat_round, lon_round) DO UPDATE
\* under the unique index ix_geocode_cache_coords
CacheUpsertPlain(cache, row) == Append(cache, row)

CacheUpsert(cache, row) ==
    CHOOSE r \in
        {IF \E i \in DOMAIN c : c[i].key = w.key
         THEN [i \in DOMAIN c |->
                 IF c[i].key = w.key
                 THEN [c[i] EXCEPT !.logradouro = w.logradouro, !.numero = w.numero,
                                   !.bairro = w.bairro, !.cep = w.cep,
                                   !.municipio = w.municipio, !.uf = w.uf,
                                   !.status = "success"]
                 ELSE c[i]] \o <<>>
         ELSE Append(c, w) :
            c \in {cache}, w \in {row}} : TRUE

RECURSIVE CacheApply(_, _)
CacheApply(cache, rows) ==
    CHOOSE r \in
        {IF w = <<>> THEN c ELSE CacheApply(CacheUpsert(c, Head(w)), Tail(w)) :
            c \in {cache}, w \in {rows}} : TRUE

\* ------------------------------------------------- candidates and ranking

MinScore == 1500

RefineTopN == 3

CepLimit == 200

MunLimit == 50

MinCepPool == 5

\* total_score >= 15
PassesThresholdStrict(total) == total > MinScore

PassesThreshold(total) == total >= MinScore

\* SELECT ... FROM cnpj_cache WHERE cep = :cep AND situacao_cadastral = 'ATIVA' LIMIT 200
SelectByCepPrefix(reg, cep) ==
    CHOOSE q \in
        {Prefix(SelectSeq(t, LAMBDA r : /\ r.cep # NONE /\ Prefix(r.cep, 5) = Prefix(c, 5)
                                        /\ r.situacao_cadastral = "ATIVA"),
                CepLimit) : t \in {reg}, c \in {cep}} : TRUE

SelectByCep(reg, cep) ==
    CHOOSE q \in
        {Prefix(SelectSeq(t, LAMBDA r : r.cep = c /\ r.situacao_cadastral = "ATIVA"),
                CepLimit) : t \in {reg}, c \in {cep}} : TRUE

\* SELECT ... WHERE UPPER(municipio) = :mun AND cnae_fiscal = :cnae
\*   AND situacao_cadastral = 'ATIVA' LIMIT 50
SelectByMunCnae(reg, mun, cnae) ==
    CHOOSE q \in
        {Prefix(SelectSeq(t,
                          LAMBDA r : /\ r.municipio # NONE
                                     /\ MapSeq(r.municipio, Upper) = m
                                     /\ r.cnae_fiscal = c
                                     /\ r.situacao_cadastral = "ATIVA"),
                MunLimit) : t \in {reg}, m \in {mun}, c \in {cnae}} : TRUE

\* the same with AND (cep IS NULL OR cep NOT IN (ceps searched))
SelectByMunCnaeExcl(reg, mun, cnae, ceps) ==
    CHOOSE q \in
        {Prefix(SelectSeq(t,
                          LAMBDA r : /\ r.municipio # NONE
                                     /\ MapSeq(r.municipio, Upper) = m
                                     /\ r.cnae_fiscal = c
                                     /\ r.situacao_cadastral = "ATIVA"
                                     /\ (r.cep = NONE \/ r.cep \notin cs)),
                MunLimit) : t \in {reg}, m \in {mun}, c \in {cnae}, cs \in {ceps}} : TRUE

\* for row in rows: if row[0] not in cnpjs_vistos: add and append
RECURSIVE AppendUnseen(_, _)
AppendUnseen(cands, rows) ==
    CHOOSE q \in
        {IF w = <<>> THEN c
         ELSE IF Len(w) = 1
              THEN (IF \E i \in DOMAIN c : c[i].cnpj = w[1].cnpj THEN c ELSE Append(c, w[1]))
              ELSE AppendUnseen(AppendUnseen(c, SubSeq(w, 1, Len(w) \div 2)),
                                SubSeq(w, Len(w) \div 2 + 1, Len(w))) :
            c \in {cands}, w \in {rows}} : TRUE

RECURSIVE PoolByCeps(_, _, _)
PoolByCeps(reg, cands, cepOrder) ==
    CHOOSE q \in
        {IF o = <<>> THEN c
         ELSE PoolByCeps(t, AppendUnseen(c, SelectByCep(t, Head(o))), Tail(o)) :
            t \in {reg}, c \in {cands}, o \in {cepOrder}} : TRUE

\* ceps_busca: the original postal code and, when different, the geocoded one
CepsBusca(cep_norm, geo_cep) ==
    CHOOSE q \in
        {(IF Truthy(c) THEN {c} ELSE {})
            \cup (IF Truthy(gc) /\ gc # c THEN {gc} ELSE {}) :
            c \in {cep_norm}, gc \in {geo_cep}} : TRUE

\* the orders in which a Python set of postal codes may be iterated
SetOrders(S) ==
    CHOOSE q \in
        {{sq \in [1..Cardinality(T) -> T] : Range(sq) = T} : T \in {S}} : TRUE

\* if len(candidatos) < 5 and mun_nome and cnae_norm
UsesSecondaryAtFive(byCep, cli) ==
    Len(byCep) <= MinCepPool /\ Truthy(cli.municipio_nome) /\ Truthy(cli.cnae_norm)

UsesSecondary(byCep, cli) ==
    Len(byCep) < MinCepPool /\ Truthy(cli.municipio_nome) /\ Truthy(cli.cnae_norm)

\* candidate pool of refine for one iteration order of ceps_busca
refine_candidatos(reg, cli, geo_cep, cepOrder) ==
    CHOOSE q \in
        {IF UsesSecondary(byCep, c)
         THEN AppendUnseen(byCep, SelectByMunCnae(t, c.municipio_nome, c.cnae_norm))
         ELSE byCep :
            t \in {reg}, c \in {cli}, byCep \in {PoolByCeps(reg, <<>>, cepOrder)}} : TRUE

\* if score_geo > score_bdgd
GeoWinsOnTie(score_geo, score_bdgd) == score_geo >= score_bdgd

GeoWins(score_geo, score_bdgd) == score_geo > score_bdgd

\* the better of the two address sources of one candidate: b and gs are the
\* component scores against the BDGD and the geocoded address
ScoreSelectMixed(s_cnae, b, gs, has_geo, cnpj) ==
    CHOOSE r \in
        {[score_total |-> IF GeoWins(score_geo, score_bdgd) THEN score_geo ELSE score_bdgd,
          score_cep |-> b[1], score_cnae |-> s_cnae, score_endereco |-> b[2],
          score_numero |-> b[3], score_bairro |-> b[4], cnpj |-> cnpj,
          address_source |-> IF GeoWins(score_geo, score_bdgd) THEN "geocoded" ELSE "bdgd"] :
            score_bdgd \in {b[1] + s_cnae + b[2] + b[3] + b[4]},
            score_geo \in {IF has_geo THEN gs[1] + s_cnae + gs[2] + gs[3] + gs[4] ELSE 0}} :
        TRUE

ScoreSelect(s_cnae, b, gs, has_geo, cnpj) ==
    CHOOSE r \in
        {[score_total |-> IF GeoWins(score_geo, score_bdgd) THEN score_geo ELSE score_bdgd,
          score_cep |-> sel[1], score_cnae |-> s_cnae, score_endereco |-> sel[2],
          score_numero |-> sel[3], score_bairro |-> sel[4], cnpj |-> cnpj,
          address_source |-> IF GeoWins(score_geo, score_bdgd) THEN "geocoded" ELSE "bdgd"] :
            score_bdgd \in {b[1] + s_cnae + b[2] + b[3] + b[4]},
            score_geo \in {IF has_geo THEN gs[1] + s_cnae + gs[2] + gs[3] + gs[4] ELSE 0},
            sel \in {IF GeoWins(IF has_geo THEN gs[1] + s_cnae + gs[2] + gs[3] + gs[4] ELSE 0,
                                b[1] + s_cnae + b[2] + b[3] + b[4])
                     THEN gs ELSE b}} : TRUE

\* one candidate scored against both address sources; g holds the geocoded
\* logradouro, numero, bairro and cep in use for the client
ScoreCandidate(cli, g, cand) ==
    CHOOSE r \in
        {CHOOSE t \in
            {ScoreSelect(s_cnae, b, gs, Truthy(gg.cep) \/ Truthy(gg.logradouro), cd.cnpj) :
                s_cnae \in {score_cnae(c.cnae_norm, c.cnae_5dig, cd.cnae_fiscal)},
                b \in {score_endereco(c.logradouro_norm, c.numero_norm, c.bairro_norm,
                                      c.cep_norm, cd.logradouro, cd.numero, cd.bairro,
                                      cd.cep)},
                gs \in {IF Truthy(gg.cep) \/ Truthy(gg.logradouro)
                        THEN score_endereco(gg.logradouro, gg.numero, gg.bairro, gg.cep,
                                            cd.logradouro, cd.numero, cd.bairro, cd.cep)
                        ELSE <<0, 0, 0, 0>>}} : TRUE :
            c \in {cli}, gg \in {g}, cd \in {cand}} : TRUE

\* scored = [... for cand in candidatos if total_score >= 15]
ScoreAll(cli, g, cands) ==
    CHOOSE q \in
        {SelectSeq([i \in DOMAIN cs |-> ScoreCandidate(c, gg, cs[i])] \o <<>>,
                   LAMBDA r : PassesThreshold(r.score_total)) :
            c \in {cli}, gg \in {g}, cs \in {cands}} : TRUE

\* scored.sort(key=lambda x: x[0], reverse=True): stable, equal totals keep their order
\* sorted is in descending order: r goes behind the rows that score at least as much
InsertDesc(sorted, r) ==
    CHOOSE q \in
        {SubSeq(s, 1, k) \o <<x>> \o SubSeq(s, k + 1, Len(s)) :
            s \in {sorted}, x \in {r},
            k \in {Cardinality({i \in DOMAIN sorted :
                                    sorted[i].score_total >= r.score_total})}} : TRUE

RECURSIVE SortDescFrom(_, _)
SortDescFrom(sorted, rest) ==
    CHOOSE q \in
        {IF t = <<>> THEN s
         ELSE IF Len(t) = 1 THEN InsertDesc(s, t[1])
         ELSE SortDescFrom(SortDescFrom(s, SubSeq(t, 1, Len(t) \div 2)),
                           SubSeq(t, Len(t) \div 2 + 1, Len(t))) :
            s \in {sorted}, t \in {rest}} : TRUE

SortDesc(scored) == SortDescFrom(<<>>, scored)

\* for rank, s in enumerate(scored[:n], 1): the rows inserted for one client
RankedRowsFromOne(cod_id, scored, n) ==
    CHOOSE q \in
        {[i \in DOMAIN top |->
            [cod_id |-> cod_id, cnpj |-> top[i].cnpj, score_total |-> top[i].score_total,
             score_cep |-> top[i].score_cep, score_cnae |-> top[i].score_cnae,
             score_endereco |-> top[i].score_endereco, score_numero |-> top[i].score_numero,
             score_bairro |-> top[i].score_bairro, rank |-> 1,
             address_source |-> top[i].address_source]] \o <<>> :
            top \in {Prefix(SortDesc(scored), n)}} : TRUE

RankedRows(cod_id, scored, n) ==
    CHOOSE q \in
        {[i \in DOMAIN top |->
            [cod_id |-> cod_id, cnpj |-> top[i].cnpj, score_total |-> top[i].score_total,
             score_cep |-> top[i].score_cep, score_cnae |-> top[i].score_cnae,
             score_endereco |-> top[i].score_endereco, score_numero |-> top[i].score_numero,
             score_bairro |-> top[i].score_bairro, rank |-> i,
             address_source |-> top[i].address_source]] \o <<>> :
            top \in {Prefix(SortDesc(scored), n)}} : TRUE

\* the four geocoded fields the scorer reads
GeoFields(g) ==
    [logradouro |-> g.logradouro, numero |-> g.numero, bairro |-> g.bairro, cep |-> g.cep]

\* ------------------------------------------------------------- the state

Sess == {1, 2}

MaxCalls == 2

BatchSize == 2

AllCods == UNION {CodIds(ds) : ds \in DS}

Cliente(ds, cod) ==
    ClientesBase[ds][CHOOSE i \in DOMAIN ClientesBase[ds] : ClientesBase[ds][i].cod_id = cod]

\* (lat_r, lon_r) of a client
CoordKey(c) == <<round_coord(c.point_y), round_coord(c.point_x)>>

\* if len(cod_ids) > 100 in the two refine routes
RouteLimit == 100

\* a list of RouteLimit + 1 ids: unknown ids, then A2 as the 100th and A1 as the 101st
LongIds ==
    [i \in 1..(RouteLimit + 1) |->
        IF i = RouteLimit THEN "A2" ELSE IF i = RouteLimit + 1 THEN "A1" ELSE "ZZ"]

\* the bodies POST /refine is called with: (table, cod_ids)
RefineRequests ==
    { <<"bdgd", <<>>>>, <<"bdgd", <<"A3">>>>, <<"bdgd", <<"A1">>>>,
      <<"bdgd", <<"A2", "A1">>>>, <<"bdgd", <<"A4", "A1", "A3", "ZZ">>>>,
      <<"b3", <<"B1">>>>, <<"bdgd", LongIds>> }

Reverse(sq) == [i \in DOMAIN sq |-> sq[Len(sq) + 1 - i]]

\* one of the orders in which the set of postal codes is iterated
OrderOf(S, b) ==
    LET o == CHOOSE q \in SetOrders(S) : TRUE IN IF b THEN o ELSE Reverse(o)

\* the geocoded addresses a client can have: none, or one of the service's answers
GeoAddrs ==
    {GeoFields(GeoNull)} \cup
    {GeoFields(reverse_geocode(ans)) : ans \in {a \in NominatimAnswers : a.kind = "ok"}}

\* the contents cnpj_cache of the matching database goes through: as first
\* imported, emptied by the TRUNCATE of a later import, and refilled batch by batch
RegistryContents ==
    {CnpjCache, <<>>, CnpjCacheLater, CnpjCacheSparse} \cup
    {Prefix(CnpjCacheLater, n * ImportBatchSize) : n \in 1..Len(CnpjCacheLater)}

\* the rows refine inserts for a client, tabulated over the registry contents,
\* the geocoded addresses and the iteration orders
RefineRowsTable ==
    {[reg |-> reg, ds |-> ds, cod_id |-> cli.cod_id, g |-> g, b |-> b,
      rows |-> LET ceps == CepsBusca(cli.cep_norm, g.cep)
               IN IF ceps = {} THEN <<>>
                  ELSE RankedRows(cli.cod_id,
                                  ScoreAll(cli, g,
                                           refine_candidatos(reg, cli, g.cep, OrderOf(ceps, b))),
                                  RefineTopN)] :
        <<reg, ds, cli, g, b>> \in
            {q \in RegistryContents \X DS \X (UNION {Range(ClientesBase[d]) : d \in DS})
                        \X GeoAddrs \X BOOLEAN :
                q[3] \in Range(ClientesBase[q[2]])}}

RefineRows(reg, ds, cod, g, b) ==
    (CHOOSE e \in RefineRowsTable :
        e.reg = reg /\ e.ds = ds /\ e.cod_id = cod /\ e.g = g /\ e.b = b).rows

VARIABLES
    clientes_geo,    \* geo_* columns of bdgd_clientes / b3_clientes, by cod_id (committed)
    matches,         \* bdgd_cnpj_matches / b3_cnpj_matches, by table (committed rows)
    matches_seq,     \* the id sequences of the two match tables
    geocode_cache,   \* geocode_cache (committed rows)
    rs,              \* the refine calls being served, by worker
    bm,              \* the batch matching script
    b3m,             \* the B3 batch matching script
    ncalls,          \* refine calls and batch runs started so far
    okKeys,          \* history: keys the external service has answered with success
    cnpj_cache,      \* crm.cnpj_cache, the company registry the bulk loader fills
    ld,              \* the bulk loader run
    sc,              \* one application of the scoring loop, or of a function, to given inputs
    dl,              \* the download of the raw files
    registry,        \* cnpj_cache of the matching database (committed rows)
    imp,             \* the run of import_cnpj.py
    calls            \* history: the refine calls committed and the batch runs started

matchVars == <<clientes_geo, matches, matches_seq, geocode_cache, rs, bm, b3m, ncalls, okKeys>>

loaderVars == <<cnpj_cache, ld>>

scoreVars == <<sc>>

importVars == <<registry, imp>>

vars == <<matchVars, loaderVars, scoreVars, dl, importVars, calls>>

NoCall ==
    [pc |-> "idle", ds |-> "bdgd", clientes |-> <<>>, snap |-> <<>>, tocheck |-> <<>>,
     coords |-> <<>>, geocoded_results |-> <<>>, idx |-> 1, ci |-> 1,
     geocoded_count |-> 0, improved |-> 0,
     tx_cache |-> <<>>, tx_geo |-> <<>>, tx_del |-> {}, tx_ins |-> <<>>,
     okAtStart |-> {}, errKeys |-> {}, reqKeys |-> <<>>, ret |-> NONE,
     input |-> <<>>, via |-> "route"]

Active(s) == rs[s].pc \notin {"idle", "done", "failed", "rejected"}

NoLoad ==
    [pc |-> "idle", estab |-> <<>>, simples |-> [exists |-> FALSE, rows |-> <<>>], needed |-> {}, mei |-> {},
     final |-> {}, pos |-> 1, batch |-> <<>>, inserted |-> 0, skipped |-> 0,
     mei_skipped |-> 0, before |-> <<>>, failedAt |-> 0, nruns |-> 0,
     hist |-> <<>>, zips |-> TRUE, delete_after |-> TRUE, badrow |-> 0,
     conflict |-> FALSE]

NoScore == [phase |-> "idle"]

\* FILE_GROUPS, abridged to one file of three groups, in download order
DownloadFiles == <<"Estabelecimentos0", "Simples", "Cnaes">>

\* disk: what DOWNLOAD_DIR holds of each file; attempts: the requests sent for each file
\* by the running call; logged: the files whose failure was logged
NoDownload ==
    [pc |-> "idle", i |-> 1, disk |-> [f \in Range(DownloadFiles) |-> "none"],
     attempts |-> [f \in Range(DownloadFiles) |-> 0], downloaded |-> <<>>,
     logged |-> {}, ret |-> "none", nruns |-> 0]

NoBatch ==
    [pc |-> "idle", offset |-> 0, total |-> 0, before |-> <<>>, failed |-> FALSE,
     run |-> 0, eligible |-> {}, processed |-> <<>>]

NoB3 ==
    [pc |-> "idle", todo |-> <<>>, insert_batch |-> <<>>, ceps_processados |-> {},
     resume |-> TRUE, nruns |-> 0, interrupted |-> 0]

MatchInit ==
    /\ clientes_geo = [c \in AllCods |-> GeoNull]
    /\ matches = [ds \in DS |-> <<>>]
    /\ matches_seq = [ds \in DS |-> 1]
    /\ geocode_cache = <<>>
    /\ rs = [s \in Sess |-> NoCall]
    /\ bm = NoBatch
    /\ b3m = NoB3
    /\ ncalls = 0
    /\ okKeys = {}

LoaderInit ==
    /\ cnpj_cache = <<>>
    /\ ld = NoLoad
    /\ dl = NoDownload

NoImport == [pc |-> "idle", src |-> <<>>, pos |-> 1, nruns |-> 0]

ImportInit ==
    /\ registry = CnpjCache
    /\ imp = NoImport
    /\ calls = <<>>

Init == MatchInit /\ LoaderInit /\ ImportInit /\ sc = NoScore

\* dict insertion order of coords_to_geocode: first client of each key
RECURSIVE CoordsToGeocode(_, _, _, _)
CoordsToGeocode(ds, cods, snap, acc) ==
    IF cods = <<>> THEN acc
    ELSE LET k == CoordKey(Cliente(ds, Head(cods)))
         IN CoordsToGeocode(ds, Tail(cods), Tail(snap),
                IF Head(snap).status = "success" \/ k \in Range(acc)
                THEN acc ELSE Append(acc, k))

\* cod_ids = cod_ids[:MAX_CLIENTES]
FirstIdsAll(ids) == ids

FirstIds(ids) == Prefix(ids, MAX_CLIENTES)

\* refine_clientes up to the first cache query
BeginRefine(s, ds, ids, via) ==
    LET cod_ids == FirstIds(ids)
        tbl == ClientesBase[ds]
        sel == SelectSeq(tbl, LAMBDA c : /\ c.cod_id \in Range(cod_ids)
                                         /\ c.point_x # 0 /\ c.point_y # 0)
        cods == [i \in DOMAIN sel |-> sel[i].cod_id]
        snap == [i \in DOMAIN cods |-> clientes_geo[cods[i]]]
        coords == CoordsToGeocode(ds, cods, snap, <<>>)
    IN /\ ncalls < MaxCalls
       /\ ncalls' = ncalls + 1
       /\ IF cod_ids = <<>> \/ sel = <<>>
          THEN rs' = [rs EXCEPT ![s] = [NoCall EXCEPT !.pc = "done", !.ds = ds,
                         !.ret = [refined |-> 0, geocoded |-> 0, improved |-> 0]]]
          ELSE rs' = [rs EXCEPT ![s] = [NoCall EXCEPT
                         !.pc = IF coords = <<>> THEN "update" ELSE "cache",
                         !.ds = ds, !.clientes = cods, !.snap = snap,
                         !.tocheck = coords, !.okAtStart = okKeys,
                         !.input = ids, !.via = via]]
       /\ UNCHANGED <<clientes_geo, matches, matches_seq, geocode_cache, bm, okKeys, b3m, loaderVars, scoreVars, dl, importVars, calls>>

\* raise HTTPException(400) of the route: the service is not called
RejectRefine(s, ds, ids) ==
    /\ ncalls < MaxCalls
    /\ ncalls' = ncalls + 1
    /\ rs' = [rs EXCEPT ![s] = [NoCall EXCEPT !.pc = "rejected", !.ds = ds, !.input = ids]]
    /\ UNCHANGED <<clientes_geo, matches, matches_seq, geocode_cache, bm, okKeys, b3m, loaderVars, scoreVars, dl, importVars, calls>>

\* POST /refine: refine_matches / b3_refine_matches
RouteRefine(s, ds, ids) ==
    IF Len(ids) > RouteLimit THEN RejectRefine(s, ds, ids) ELSE BeginRefine(s, ds, ids, "route")

\* one request at a time is served
StartRefine(s) ==
    /\ ~Active(s) /\ bm.pc = "idle"
    /\ \A t \in Sess : ~Active(t)
    /\ \E rq \in RefineRequests : RouteRefine(s, rq[1], rq[2])

\* another worker may be serving a refine call
StartRefineConc(s) ==
    /\ ~Active(s) /\ bm.pc = "idle"
    /\ \E rq \in RefineRequests : RouteRefine(s, rq[1], rq[2])

\* a refine request arrives while the batch script is between two pages
StartRefineInBatch(s) ==
    /\ ~Active(s) /\ bm.pc = "paging"
    /\ \E rq \in RefineRequests : RouteRefine(s, rq[1], rq[2])

\* RefineService.refine_clientes called with a list, not through the route
CallService(s) ==
    /\ ~Active(s) /\ bm.pc = "idle"
    /\ \A t \in Sess : ~Active(t)
    /\ \E rq \in RefineRequests : BeginRefine(s, rq[1], rq[2], "service")

\* SELECT ... FROM geocode_cache WHERE lat_round, lon_round = key AND status = 'success'
CacheLookup(s) ==
    /\ rs[s].pc = "cache"
    /\ LET r == rs[s]
           k == Head(r.tocheck)
           hits == SelectSeq(geocode_cache, LAMBDA row : row.key = k /\ row.status = "success")
           rest == Tail(r.tocheck)
           coords == IF hits = <<>> THEN Append(r.coords, k) ELSE r.coords
           res == IF hits = <<>> THEN r.geocoded_results
                  ELSE Append(r.geocoded_results,
                         [key |-> k,
                          logradouro |-> normalizar_texto(hits[1].logradouro),
                          numero |-> hits[1].numero,
                          bairro |-> normalizar_texto(hits[1].bairro),
                          cep |-> hits[1].cep,
                          municipio |-> normalizar_texto(hits[1].municipio),
                          uf |-> hits[1].uf])
       IN rs' = [rs EXCEPT ![s] = [r EXCEPT
                    !.tocheck = rest, !.coords = coords, !.geocoded_results = res,
                    !.pc = IF rest # <<>> THEN "cache"
                           ELSE IF coords = <<>> THEN "update" ELSE "geocode"]]
    /\ UNCHANGED <<clientes_geo, matches, matches_seq, geocode_cache, bm, ncalls, okKeys, b3m, loaderVars, scoreVars, dl, importVars, calls>>

\* client.get(NOMINATIM_URL, ...) is awaited
SendRequest(s) ==
    /\ rs[s].pc = "geocode"
    /\ rs' = [rs EXCEPT ![s].pc = "inflight",
                        ![s].reqKeys = Append(@, rs[s].coords[rs[s].idx])]
    /\ UNCHANGED <<clientes_geo, matches, matches_seq, geocode_cache, bm, ncalls, okKeys, b3m, loaderVars, scoreVars, dl, importVars, calls>>

\* the answer arrives; a success is stored in the call's result and upserted into the cache
Response(s) ==
    /\ rs[s].pc = "inflight"
    /\ \E ans \in NominatimAnswers :
         LET r == rs[s]
             k == r.coords[r.idx]
             geo == reverse_geocode(ans)
         IN IF geo.status = "success"
            THEN /\ rs' = [rs EXCEPT ![s] = [r EXCEPT
                             !.pc = "sleep",
                             !.geocoded_results = Append(@, [key |-> k] @@ geo),
                             !.geocoded_count = @ + 1,
                             !.tx_cache = Append(@, [key |-> k, logradouro |-> geo.logradouro,
                                                     numero |-> geo.numero, bairro |-> geo.bairro,
                                                     cep |-> geo.cep, municipio |-> geo.municipio,
                                                     uf |-> geo.uf, status |-> "success"])]]
                 /\ okKeys' = okKeys \cup {k}
            ELSE /\ rs' = [rs EXCEPT ![s] = [r EXCEPT !.pc = "sleep",
                                                        !.errKeys = @ \cup {k}]]
                 /\ okKeys' = okKeys
    /\ UNCHANGED <<clientes_geo, matches, matches_seq, geocode_cache, bm, ncalls, b3m, loaderVars, scoreVars, dl, importVars, calls>>

\* await asyncio.sleep(1.1) returns
SleepDone(s) ==
    /\ rs[s].pc = "sleep"
    /\ rs' = [rs EXCEPT ![s].idx = @ + 1,
                        ![s].pc = IF rs[s].idx + 1 > Len(rs[s].coords) THEN "update" ELSE "geocode"]
    /\ UNCHANGED <<clientes_geo, matches, matches_seq, geocode_cache, bm, ncalls, okKeys, b3m, loaderVars, scoreVars, dl, importVars, calls>>

\* geocoded_results.get(key)
HasResult(res, k) == \E i \in DOMAIN res : res[i].key = k

ResultFor(res, k) == res[CHOOSE i \in DOMAIN res : res[i].key = k]

\* UPDATE bdgd_clientes SET geo_* = ... for every client of the call whose key has a result
UpdateGeo(s) ==
    /\ rs[s].pc = "update"
    /\ LET r == rs[s]
           upd == SelectSeq(r.clientes,
                            LAMBDA c : HasResult(r.geocoded_results, CoordKey(Cliente(r.ds, c))))
           rows == [i \in DOMAIN upd |->
                      LET g == ResultFor(r.geocoded_results, CoordKey(Cliente(r.ds, upd[i])))
                      IN [cod_id |-> upd[i], logradouro |-> g.logradouro, numero |-> g.numero,
                          bairro |-> g.bairro, cep |-> g.cep, municipio |-> g.municipio,
                          uf |-> g.uf, status |-> "success"]]
       IN rs' = [rs EXCEPT ![s].tx_geo = rows, ![s].pc = "rescore", ![s].ci = 1]
    /\ UNCHANGED <<clientes_geo, matches, matches_seq, geocode_cache, bm, ncalls, okKeys, b3m, loaderVars, scoreVars, dl, importVars, calls>>

\* the address the geocoded score of a client is computed from
GeoInUse(r, i) ==
    LET k == CoordKey(Cliente(r.ds, r.clientes[i]))
    IN IF HasResult(r.geocoded_results, k)
       THEN GeoFields(ResultFor(r.geocoded_results, k))
       ELSE GeoFields(r.snap[i])

\* rows of a table as the transaction of r sees them
TxView(tbl, r) == SelectSeq(tbl, LAMBDA row : row.id \notin r.tx_del) \o r.tx_ins

RowsOf(tbl, cod) == SelectSeq(tbl, LAMBDA row : row.cod_id = cod)

WithIds(rows, first) == [i \in DOMAIN rows |-> [id |-> first + i - 1] @@ rows[i]]

\* a write made through the session stays in its transaction until the commit
StatementAutocommit(committed, written) == written

StatementInTx(committed, written) == committed

\* if new_score > old_score: improved += 1
ImprovesOnTie(new_score, old_score) == new_score >= old_score

Improves(new_score, old_score) == new_score > old_score

\* one iteration of the re-matching loop: candidates, scores, DELETE + INSERT of the rows
Rescore(s) ==
    /\ rs[s].pc = "rescore"
    /\ \E b \in BOOLEAN :
         LET r == rs[s]
             cod == r.clientes[r.ci]
             cli == Cliente(r.ds, cod)
             g == GeoInUse(r, r.ci)
             ranked == RefineRows(registry, r.ds, cod, g, b)
             seen == RowsOf(TxView(matches[r.ds], r), cod)
             best == SelectSeq(seen, LAMBDA row : row.rank = 1)
             old_score == IF best = <<>> THEN 0 ELSE best[1].score_total
             new == WithIds(ranked, matches_seq[r.ds])
             last == r.ci = Len(r.clientes)
             nextpc == IF last THEN "commit" ELSE "rescore"
         IN IF ranked = <<>>
            THEN /\ rs' = [rs EXCEPT ![s].ci = @ + 1, ![s].pc = nextpc]
                 /\ UNCHANGED <<matches, matches_seq>>
            ELSE /\ rs' = [rs EXCEPT
                      ![s].ci = @ + 1, ![s].pc = nextpc,
                      ![s].tx_del = @ \cup {seen[i].id : i \in DOMAIN seen},
                      ![s].tx_ins = @ \o new,
                      ![s].improved = IF Improves(ranked[1].score_total, old_score)
                                      THEN @ + 1 ELSE @]
                 /\ matches_seq' = [matches_seq EXCEPT ![r.ds] = @ + Len(new)]
                 /\ matches' = [matches EXCEPT ![r.ds] =
                        StatementInTx(@, SelectSeq(@, LAMBDA row : row.cod_id # cod) \o new)]
    /\ UNCHANGED <<clientes_geo, geocode_cache, bm, ncalls, okKeys, b3m, loaderVars, scoreVars, dl, importVars, calls>>

RECURSIVE GeoApply(_, _)
GeoApply(tbl, rows) ==
    IF rows = <<>> THEN tbl
    ELSE GeoApply([tbl EXCEPT ![Head(rows).cod_id] =
                      [logradouro |-> Head(rows).logradouro, numero |-> Head(rows).numero,
                       bairro |-> Head(rows).bairro, cep |-> Head(rows).cep,
                       municipio |-> Head(rows).municipio, uf |-> Head(rows).uf,
                       status |-> Head(rows).status]],
                  Tail(rows))

\* await db.commit(): every write of the call becomes visible at once
Commit(s) ==
    /\ rs[s].pc = "commit"
    /\ LET r == rs[s]
       IN /\ matches' = [matches EXCEPT ![r.ds] =
                            SelectSeq(@, LAMBDA row : row.id \notin r.tx_del) \o r.tx_ins]
          /\ clientes_geo' = GeoApply(clientes_geo, r.tx_geo)
          /\ geocode_cache' = CacheApply(geocode_cache, r.tx_cache)
          /\ rs' = [rs EXCEPT ![s] = [NoCall EXCEPT !.pc = "done", !.ds = r.ds,
                        !.ret = [refined |-> Len(r.clientes), geocoded |-> r.geocoded_count,
                                 improved |-> r.improved]]]
          /\ calls' = Append(calls,
                 [kind |-> "refine", ds |-> r.ds, input |-> r.input, clientes |-> r.clientes,
                  reg |-> registry, ok |-> r.tx_cache, err |-> r.errKeys,
                  rows |-> matches'[r.ds], geo |-> clientes_geo', cache |-> geocode_cache',
                  improved |-> r.improved])
    /\ UNCHANGED <<matches_seq, bm, ncalls, okKeys, b3m, loaderVars, scoreVars, dl, importVars>>

\* a statement or the request handling raises before the commit: get_db closes
\* the session and the transaction is rolled back
Fail(s) ==
    /\ Active(s)
    /\ rs' = [rs EXCEPT ![s] = [NoCall EXCEPT !.pc = "failed", !.ds = rs[s].ds]]
    /\ UNCHANGED <<clientes_geo, matches, matches_seq, geocode_cache, bm, ncalls, okKeys, b3m, loaderVars, scoreVars, dl, importVars, calls>>

\* ---------------------------------------------------------- batch matching

BatchTopN == 3

\* candidate pool of the batch script for one iteration order of ceps_busca
batch_candidatos(reg, cli, geo_cep, cepOrder) ==
    LET byCep == PoolByCeps(reg, <<>>, cepOrder)
    IN IF UsesSecondary(byCep, cli)
       THEN AppendUnseen(byCep, SelectByMunCnaeExcl(reg, cli.municipio_nome, cli.cnae_norm,
                                    IF cepOrder = <<>> THEN {<<>>} ELSE Range(cepOrder)))
       ELSE byCep

\* SELECT ... FROM bdgd_clientes WHERE cep_norm IS NOT NULL OR geo_cep IS NOT NULL ORDER BY id
BatchClientes ==
    SelectSeq(ClientesBase["bdgd"],
              LAMBDA c : c.cep_norm # NONE \/ clientes_geo[c.cod_id].cep # NONE)

\* the rows the batch script appends to insert_batch for a client, tabulated
\* over the registry contents, the geocoded addresses and the iteration orders
BatchRowsTable ==
    {[reg |-> reg, cod_id |-> cli.cod_id, g |-> g, b |-> b,
      rows |-> RankedRows(cli.cod_id,
                          ScoreAll(cli, g,
                                   batch_candidatos(reg, cli, g.cep,
                                       OrderOf(CepsBusca(cli.cep_norm, g.cep), b))),
                          BatchTopN)] :
        <<reg, cli, g, b>> \in
            RegistryContents \X Range(ClientesBase["bdgd"]) \X GeoAddrs \X BOOLEAN}

BatchRowsFor(cli, b) ==
    (CHOOSE e \in BatchRowsTable :
        /\ e.reg = registry /\ e.cod_id = cli.cod_id
        /\ e.g = GeoFields(clientes_geo[cli.cod_id]) /\ e.b = b).rows

RECURSIVE InsertBatch(_, _, _)
InsertBatch(page, bs, i) ==
    IF i > Len(page) THEN <<>>
    ELSE BatchRowsFor(page[i], bs[i]) \o InsertBatch(page, bs, i + 1)

\* TRUNCATE bdgd_cnpj_matches RESTART IDENTITY; commit; count the clients to process
BatchStart ==
    /\ bm.pc = "idle"
    /\ \A s \in Sess : ~Active(s)
    /\ ncalls < MaxCalls
    /\ ncalls' = ncalls + 1
    /\ matches' = [matches EXCEPT !["bdgd"] = <<>>]
    /\ matches_seq' = [matches_seq EXCEPT !["bdgd"] = 1]
    /\ bm' = [pc |-> IF Len(BatchClientes) > 0 THEN "paging" ELSE "idle",
              offset |-> 0, total |-> Len(BatchClientes),
              before |-> matches["bdgd"], failed |-> FALSE, run |-> ncalls + 1,
              eligible |-> {BatchClientes[i].cod_id : i \in DOMAIN BatchClientes},
              processed |-> <<>>]
    /\ calls' = Append(calls, [kind |-> "batch"])
    /\ UNCHANGED <<clientes_geo, geocode_cache, rs, okKeys, b3m, loaderVars, scoreVars, dl, importVars>>

\* one pass of the paging loop: select a page, score its clients, insert, commit
BatchPage ==
    /\ bm.pc = "paging"
    /\ \E bs \in [1..BatchSize -> BOOLEAN] :
         LET page == SubSeq(BatchClientes, bm.offset + 1,
                            Min(bm.offset + BatchSize, Len(BatchClientes)))
             rows == WithIds(InsertBatch(page, bs, 1), matches_seq["bdgd"])
             offset == bm.offset + BatchSize
         IN /\ matches' = [matches EXCEPT !["bdgd"] = @ \o rows]
            /\ matches_seq' = [matches_seq EXCEPT !["bdgd"] = @ + Len(rows)]
            /\ bm' = [bm EXCEPT !.offset = offset,
                                !.processed = @ \o [i \in DOMAIN page |-> page[i].cod_id],
                                !.pc = IF page # <<>> /\ offset < bm.total
                                       THEN "paging" ELSE "idle"]
    /\ UNCHANGED <<clientes_geo, geocode_cache, rs, ncalls, okKeys, b3m, loaderVars, scoreVars, dl, importVars, calls>>

\* the script dies between two pages
BatchFail ==
    /\ bm.pc = "paging"
    /\ bm' = [bm EXCEPT !.pc = "idle", !.failed = TRUE]
    /\ UNCHANGED <<clientes_geo, matches, matches_seq, geocode_cache, rs, ncalls, okKeys, b3m, loaderVars, scoreVars, dl, importVars, calls>>

\* ------------------------------------------------- import of the registry

MaxImports == 1

\* SELECT ... FROM crm.cnpj_cache ORDER BY id of the CRM database
ImportSources == {<<>>, CnpjCacheLater}

\* import_cnpj.py up to the copy loop: nothing to import, or the answer to
\* "LIMPAR a tabela destino" and the TRUNCATE it leads to; the script is run
\* while no request is being served
ImportStart ==
    /\ imp.pc = "idle" /\ imp.nruns < MaxImports
    /\ bm.pc = "idle" /\ \A s \in Sess : ~Active(s)
    /\ \E src \in ImportSources, resp \in BOOLEAN :
         IF src = <<>>
         THEN /\ imp' = [imp EXCEPT !.nruns = @ + 1]
              /\ registry' = registry
         ELSE /\ imp' = [pc |-> "copy", src |-> src, pos |-> 1, nruns |-> imp.nruns + 1]
              /\ registry' = IF registry # <<>> /\ resp THEN <<>> ELSE registry
    /\ UNCHANGED <<matchVars, loaderVars, scoreVars, dl, calls>>

\* _insert_batch: INSERT ... ON CONFLICT (cnpj) DO NOTHING; commit
ImportBatch ==
    /\ imp.pc = "copy"
    /\ bm.pc = "idle" /\ \A s \in Sess : ~Active(s)
    /\ LET batch == SubSeq(imp.src, imp.pos, Min(imp.pos + ImportBatchSize - 1, Len(imp.src)))
           pos == imp.pos + ImportBatchSize
       IN /\ registry' = AppendUnseen(registry, batch)
          /\ imp' = [imp EXCEPT !.pos = pos,
                                 !.pc = IF pos > Len(imp.src) THEN "idle" ELSE "copy"]
    /\ UNCHANGED <<matchVars, loaderVars, scoreVars, dl, calls>>

\* ------------------------------------------------------------ bulk loader

SITUACAO_ATIVA == <<"0", "2">>

\* rows per flush of the main pass
LoaderBatch == 2

MaxRuns == 2

Rep(ch, n) == [i \in 1..n |-> ch]

\* the columns of an Estabelecimentos row the filters read: its number of columns,
\* CNPJ_BASICO, CNPJ_ORDEM, CNPJ_DV, IDENTIFICADOR_MATRIZ_FILIAL, SITUACAO_CADASTRAL
EstabRow(ncols, basico, ordem, dv, matriz, situacao) ==
    [ncols |-> ncols, basico |-> basico, ordem |-> ordem, dv |-> dv,
     matriz |-> matriz, situacao |-> situacao]

EstabGood ==
    << EstabRow(30, Rep("1", 8), <<"0", "0", "0", "1">>, <<"0", "1">>, <<"1">>, <<"0", "2">>),
       EstabRow(30, Rep("2", 8), <<"0", "0", "0", "1">>, <<"0", "2">>, <<"1">>, <<"0", "8">>),
       EstabRow(30, Rep("3", 8), <<"0", "0", "0", "1">>, <<"0", "3">>, <<"1">>, <<" ", "0", "2">>),
       EstabRow(5, Rep("6", 8), <<"0", "0", "0", "1">>, <<"0", "6">>, <<"1">>, <<>>),
       EstabRow(30, Rep("4", 8), <<"0", "0", "1">>, <<"0", "4">>, <<"1">>, <<"0", "2">>),
       EstabRow(28, <<" ">> \o Rep("2", 8), <<"0", "0", "0", "2">>, <<"0", "5">>, <<>>,
                <<"0", "2">>),
       EstabRow(27, Rep("5", 8), <<"0", "0", "0", "1">>, <<"0", "7">>, <<"1">>, <<"0", "2">>) >>

\* the files a run may find in the download directory
EstabFiles ==
    { EstabGood,
      \* a non-numeric IDENTIFICADOR_MATRIZ_FILIAL in the fourth active row
      SubSeq(EstabGood, 1, 5) \o
          << EstabRow(30, Rep("7", 8), <<"0", "0", "0", "1">>, <<"0", "8">>, <<"1">>, <<"0", "2">>),
             EstabRow(30, Rep("8", 8), <<"0", "0", "0", "1">>, <<"0", "9">>, <<"1">>, <<"0", "2">>),
             EstabRow(30, Rep("9", 8), <<"0", "0", "0", "1">>, <<"1", "0">>, <<"X">>, <<"0", "2">>) >>,
      \* the same establishment twice
      << EstabGood[1], EstabGood[6], EstabGood[1] >> }

\* Simples.zip, when it is there: rows with their number of columns, CNPJ_BASICO,
\* OPCAO_PELO_SIMPLES and OPCAO_PELO_MEI
SimplesFiles ==
    { [exists |-> TRUE, rows |->
        << [ncols |-> 7, basico |-> Rep("3", 8), opt_simples |-> <<"S">>, opt_mei |-> <<"S", " ">>],
           [ncols |-> 7, basico |-> Rep("1", 8), opt_simples |-> <<"S">>, opt_mei |-> <<"N">>],
           [ncols |-> 7, basico |-> Rep("0", 8), opt_simples |-> <<"S">>, opt_mei |-> <<"S">>],
           [ncols |-> 4, basico |-> Rep("2", 8), opt_simples |-> <<"S">>, opt_mei |-> <<>>] >>],
      [exists |-> TRUE, rows |->
        << [ncols |-> 7, basico |-> Rep("2", 8), opt_simples |-> <<"N">>, opt_mei |-> <<"S">>] >>],
      [exists |-> FALSE, rows |-> <<>>] }

\* the rows of the Socios files, in input order: their number of columns, CNPJ_BASICO,
\* NOME_SOCIO and QUALIFICACAO_SOCIO; one row is short, one has a blank name and
\* a qualification code the lookup table lacks, one has no qualification
SociosRows ==
    << [ncols |-> 11, basico |-> Rep("1", 8), nome |-> <<"A", "N", "A">>,
        qual |-> <<"4", "9">>],
       [ncols |-> 11, basico |-> Rep("5", 8), nome |-> <<"E", "V", "A">>,
        qual |-> <<"4", "9">>],
       [ncols |-> 5, basico |-> Rep("1", 8), nome |-> <<"I", "V", "O">>,
        qual |-> <<"4", "9">>],
       [ncols |-> 11, basico |-> Rep("1", 8) \o <<" ">>, nome |-> <<" ">>,
        qual |-> <<"9", "9", " ">>],
       [ncols |-> 11, basico |-> Rep("3", 8), nome |-> <<" ", "B", "O", "B">>,
        qual |-> <<>>] >>

\* lookups["qualificacoes"]: code -> description
Qualificacoes == [code \in {<<"4", "9">>} |-> <<"S", "O", "C", "I", "O">>]

clean(val) == IF val = NONE \/ Strip(val) = <<>> THEN NONE ELSE Strip(val)

prescan_estabelecimentos(rows) ==
    {Strip(rows[i].basico) :
        i \in {j \in DOMAIN rows : rows[j].ncols >= 6 /\ Strip(rows[j].situacao) = SITUACAO_ATIVA}}

\* mei_subset of load_simples_filtered
load_simples_filtered(file, needed_basicos) ==
    IF ~file.exists THEN {}
    ELSE LET rows == file.rows IN
         {Strip(rows[i].basico) :
            i \in {j \in DOMAIN rows : /\ rows[j].ncols >= 5
                                       /\ Strip(rows[j].basico) \in needed_basicos
                                       /\ clean(rows[j].opt_mei) = <<"S">>}}

\* if cnpj_basico in mei_set: continue
SkipMeiNever(cnpj_basico, mei_set) == FALSE

SkipMei(cnpj_basico, mei_set) == cnpj_basico \in mei_set

\* what the main pass does with one row
RowOutcome(row, mei_set) ==
    LET cnpj == Strip(row.basico) \o Strip(row.ordem) \o Strip(row.dv)
    IN IF row.ncols < 28 THEN "short"
       ELSE IF Strip(row.situacao) # SITUACAO_ATIVA THEN "skipped"
       ELSE IF Len(cnpj) # 14 THEN "skipped"
       ELSE IF SkipMei(Strip(row.basico), mei_set) THEN "mei"
       ELSE IF Strip(row.matriz) # <<>> /\ ~(Range(Strip(row.matriz)) \subseteq DigitChars)
            THEN "raise"
       ELSE "record"

\* socio = {"nome": nome or "", "qualificacao": qual_desc or qual_code or ""}
socio(row) ==
    LET qual_code == clean(row.qual)
        qual_desc == IF Truthy(qual_code) /\ qual_code \in DOMAIN Qualificacoes
                     THEN Qualificacoes[qual_code] ELSE <<>>
    IN [nome |-> Or(clean(row.nome), <<>>),
        qualificacao |-> Or(Or(qual_desc, qual_code), <<>>)]

\* socios_map[cnpj_basico] keeps the last row only
socios_map_last(rows, cnpj_basico) ==
    LET own == SelectSeq(rows, LAMBDA r : r.ncols >= 7 /\ Strip(r.basico) = cnpj_basico)
    IN IF own = <<>> THEN <<>> ELSE <<socio(own[Len(own)])>>

\* socios_map[cnpj_basico]: the entries of the rows of one CNPJ_BASICO, in input order
socios_map(rows, cnpj_basico) ==
    LET own == SelectSeq(rows, LAMBDA r : r.ncols >= 7 /\ Strip(r.basico) = cnpj_basico)
    IN [i \in DOMAIN own |-> socio(own[i])] \o <<>>

RowRecord(row) ==
    [cnpj |-> Strip(row.basico) \o Strip(row.ordem) \o Strip(row.dv),
     situacao_cadastral |-> "ATIVA",
     socios |-> <<>>]

\* execute_values(INSERT ...) under the unique index on cnpj
FlushConflicts(tbl, batch) ==
    \/ \E i, j \in DOMAIN batch : i # j /\ batch[i].cnpj = batch[j].cnpj
    \/ \E i \in DOMAIN batch : \E j \in DOMAIN tbl : batch[i].cnpj = tbl[j].cnpj

LoadStage(pc) ==
    CASE pc = "lookups" -> 1
      [] pc = "prescan" -> 2
      [] pc = "simples" -> 3
      [] pc = "empresas" -> 4
      [] pc \in {"truncate", "stream"} -> 5
      [] pc = "socios" -> 6
      [] pc = "cleanup" -> 7
      [] OTHER -> 0

\* run_full_load(delete_after) is called with the raw files downloaded; hist
\* records the stages the run has entered
LoadStart ==
    /\ ld.pc \in {"idle", "done", "failed"}
    /\ ld.nruns < MaxRuns
    /\ \E ef \in EstabFiles : \E sf \in SimplesFiles : \E da \in BOOLEAN :
         ld' = [NoLoad EXCEPT !.pc = "lookups", !.estab = ef, !.simples = sf,
                              !.before = cnpj_cache, !.nruns = ld.nruns + 1,
                              !.hist = <<1>>, !.zips = TRUE, !.delete_after = da]
    /\ UNCHANGED <<cnpj_cache, matchVars, scoreVars, dl, importVars, calls>>

\* stage 1 returns (the lookup tables are not among the modelled columns)
LoadLookups ==
    /\ ld.pc = "lookups"
    /\ ld' = [ld EXCEPT !.pc = "prescan", !.hist = Append(@, 2)]
    /\ UNCHANGED <<cnpj_cache, matchVars, scoreVars, dl, importVars, calls>>

\* stage 2
Prescan ==
    /\ ld.pc = "prescan"
    /\ ld' = [ld EXCEPT !.pc = "simples", !.needed = prescan_estabelecimentos(ld.estab),
                        !.hist = Append(@, 3)]
    /\ UNCHANGED <<cnpj_cache, matchVars, scoreVars, dl, importVars, calls>>

\* stage 3, and final_basicos = needed_basicos - mei_subset
LoadSimples ==
    /\ ld.pc = "simples"
    /\ LET mei == load_simples_filtered(ld.simples, ld.needed)
       IN ld' = [ld EXCEPT !.pc = "empresas", !.mei = mei, !.final = ld.needed \ mei,
                           !.hist = Append(@, 4)]
    /\ UNCHANGED <<cnpj_cache, matchVars, scoreVars, dl, importVars, calls>>

\* stage 4 (the company names it loads are not among the modelled columns)
LoadEmpresas ==
    /\ ld.pc = "empresas"
    /\ ld' = [ld EXCEPT !.pc = "truncate", !.hist = Append(@, 5)]
    /\ UNCHANGED <<cnpj_cache, matchVars, scoreVars, dl, importVars, calls>>

\* stage 5 opens with TRUNCATE TABLE crm.cnpj_cache; commit
Truncate ==
    /\ ld.pc = "truncate"
    /\ cnpj_cache' = <<>>
    /\ ld' = [ld EXCEPT !.pc = "stream"]
    /\ UNCHANGED <<matchVars, scoreVars, dl, importVars, calls>>

\* the main pass reads one row; a full batch is flushed and committed
StreamRow ==
    /\ ld.pc = "stream" /\ ld.pos <= Len(ld.estab)
    /\ LET row == ld.estab[ld.pos]
           out == RowOutcome(row, ld.mei)
           batch == IF out = "record" THEN Append(ld.batch, RowRecord(row))
                    ELSE ld.batch
           full == out = "record" /\ Len(batch) >= LoaderBatch
           fails == out = "raise" \/ (full /\ FlushConflicts(cnpj_cache, batch))
       IN /\ cnpj_cache' = IF full /\ ~fails THEN cnpj_cache \o batch ELSE cnpj_cache
          /\ ld' = IF fails THEN [ld EXCEPT !.pc = "failed", !.failedAt = 5,
                                             !.badrow = IF out = "raise" THEN ld.pos ELSE 0,
                                             !.conflict = out # "raise"]
                   ELSE [ld EXCEPT !.pos = @ + 1,
                                   !.batch = IF full THEN <<>> ELSE batch,
                                   !.inserted = IF full THEN @ + Len(batch) ELSE @,
                                   !.skipped = IF out = "skipped" THEN @ + 1 ELSE @,
                                   !.mei_skipped = IF out = "mei" THEN @ + 1 ELSE @]
    /\ UNCHANGED <<matchVars, scoreVars, dl, importVars, calls>>

\* the files are exhausted: flush the remaining rows
FinalFlush ==
    /\ ld.pc = "stream" /\ ld.pos > Len(ld.estab)
    /\ IF ld.batch # <<>> /\ FlushConflicts(cnpj_cache, ld.batch)
       THEN /\ ld' = [ld EXCEPT !.pc = "failed", !.failedAt = 5, !.conflict = TRUE]
            /\ UNCHANGED cnpj_cache
       ELSE /\ cnpj_cache' = cnpj_cache \o ld.batch
            /\ ld' = [ld EXCEPT !.pc = "socios", !.batch = <<>>,
                                !.inserted = @ + Len(ld.batch), !.hist = Append(@, 6)]
    /\ UNCHANGED <<matchVars, scoreVars, dl, importVars, calls>>

\* stage 6: UPDATE cnpj_cache SET socios = ... WHERE LEFT(cnpj, 8) = cnpj_basico
LoadSocios ==
    /\ ld.pc = "socios"
    /\ cnpj_cache' = [i \in DOMAIN cnpj_cache |->
                        IF socios_map(SociosRows, Prefix(cnpj_cache[i].cnpj, 8)) # <<>>
                        THEN [cnpj_cache[i] EXCEPT
                                 !.socios = socios_map(SociosRows, Prefix(cnpj_cache[i].cnpj, 8))]
                        ELSE cnpj_cache[i]] \o <<>>
    /\ ld' = [ld EXCEPT !.pc = "cleanup", !.hist = Append(@, 7)]
    /\ UNCHANGED <<matchVars, scoreVars, dl, importVars, calls>>

\* stage 7: cleanup_downloads() when delete_after, and the run returns
Cleanup ==
    /\ ld.pc = "cleanup"
    /\ ld' = [ld EXCEPT !.pc = "done", !.zips = IF ld.delete_after THEN FALSE ELSE @]
    /\ UNCHANGED <<cnpj_cache, matchVars, scoreVars, dl, importVars, calls>>

\* the statement run_full_load goes on with when the stage at pc raises: none, the
\* exception leaves run_full_load
AfterFailureGoOn(pc) ==
    CASE pc = "lookups" -> "prescan"
      [] pc = "prescan" -> "simples"
      [] pc = "simples" -> "empresas"
      [] pc = "empresas" -> "truncate"
      [] pc \in {"truncate", "stream"} -> "socios"
      [] pc = "socios" -> "cleanup"
      [] OTHER -> "failed"

AfterFailure(pc) == "failed"

\* a stage raises (unreadable archive, lost database connection): the run aborts;
\* cleanup_downloads may have deleted some of the files when it raises
LoadFail ==
    /\ ld.pc \in {"lookups", "prescan", "simples", "empresas", "truncate", "stream",
                  "socios", "cleanup"}
    /\ \E z \in (IF ld.pc = "cleanup" /\ ld.delete_after THEN BOOLEAN ELSE {ld.zips}) :
         ld' = IF AfterFailure(ld.pc) = "failed"
               THEN [ld EXCEPT !.pc = "failed", !.failedAt = LoadStage(ld.pc), !.zips = z]
               ELSE [ld EXCEPT !.pc = AfterFailure(ld.pc),
                               !.hist = Append(@, LoadStage(AfterFailure(ld.pc))),
                               !.failedAt = LoadStage(ld.pc)]
    /\ UNCHANGED <<cnpj_cache, matchVars, scoreVars, dl, importVars, calls>>

\* ------------------------------------------------------------- downloader

MaxDownloads == 2

\* what one httpx.stream("GET", url) of download_file can end in
HttpOutcomes == {"ok", "status_error", "connect_error", "broken_stream"}

\* the file on disk after download_file(url, dest) whose request ended in out
DiskAfter(before, out) ==
    IF out = "ok" THEN "complete"
    ELSE IF out = "broken_stream" /\ before = "none" THEN "partial"
    ELSE before

\* download_all(groups) is called
DownloadStart ==
    /\ dl.pc \in {"idle", "done"}
    /\ dl.nruns < MaxDownloads
    /\ dl' = [NoDownload EXCEPT !.pc = "running", !.disk = dl.disk, !.nruns = dl.nruns + 1]
    /\ UNCHANGED <<cnpj_cache, ld, matchVars, scoreVars, importVars, calls>>

\* one pass of the loop of download_all: download_file is called once and its
\* exception, if any, is logged; after the last file download_all returns the list
DownloadFile ==
    /\ dl.pc = "running"
    /\ \E out \in HttpOutcomes :
         LET f == DownloadFiles[dl.i]
             last == dl.i = Len(DownloadFiles)
         IN dl' = [dl EXCEPT
                      !.attempts[f] = @ + 1,
                      !.disk[f] = DiskAfter(@, out),
                      !.downloaded = IF out = "ok" THEN Append(@, f) ELSE @,
                      !.logged = IF out = "ok" THEN @ ELSE @ \cup {f},
                      !.i = @ + 1,
                      !.pc = IF last THEN "done" ELSE "running",
                      !.ret = IF last THEN "returned" ELSE "none"]
    /\ UNCHANGED <<cnpj_cache, ld, matchVars, scoreVars, importVars, calls>>

\* ------------------------------------------------- the scoring loop alone

\* jaccard_words(text1, text2, min_len) * pts, rounded to two decimals, in hundredths
jaccard_words(text1, text2, min_len, pts) ==
    LET words1 == {p \in SplitWords(text1) : Len(p) > min_len}
        words2 == {p \in SplitWords(text2) : Len(p) > min_len}
    IN IF ~Truthy(text1) \/ ~Truthy(text2) \/ words1 = {} \/ words2 = {} THEN 0
       ELSE RoundDiv(Cardinality(words1 \cap words2) * pts, Cardinality(words1 \cup words2))

\* score_candidate of the B3 batch script
score_candidate(cli, cand) ==
    LET s_cep == IF Truthy(cli.cep_norm) /\ Truthy(cand.cep) /\ cli.cep_norm = cand.cep
                 THEN 4000 ELSE 0
        s_cnae == score_cnae(cli.cnae_norm, cli.cnae_5dig, cand.cnae_fiscal)
        cnpj_logr == normalizar_texto(cand.logradouro)
        s_end == IF Truthy(cli.logradouro_norm) /\ Truthy(cand.logradouro) /\ Truthy(cnpj_logr)
                 THEN jaccard_words(cli.logradouro_norm, cnpj_logr, 3, 2000) ELSE 0
        s_num == IF Truthy(cli.numero_norm) /\ Truthy(cand.numero)
                    /\ cli.numero_norm = OnlyDigits(cand.numero)
                 THEN 1000 ELSE 0
        cnpj_brr == normalizar_texto(cand.bairro)
        s_brr == IF Truthy(cli.bairro_norm) /\ Truthy(cand.bairro) /\ Truthy(cnpj_brr)
                 THEN IF cli.bairro_norm = cnpj_brr THEN 500
                      ELSE jaccard_words(cli.bairro_norm, cnpj_brr, 2, 500)
                 ELSE 0
    IN [score_total |-> s_cep + s_cnae + s_end + s_num + s_brr,
        score_cep |-> s_cep, score_cnae |-> s_cnae, score_endereco |-> s_end,
        score_numero |-> s_num, score_bairro |-> s_brr, cnpj |-> cand.cnpj,
        address_source |-> "bdgd"]

\* scored = [... for cand in candidatos if total_score >= 15] of the B3 batch script
ScoreAllB3(cli, cands) ==
    SelectSeq([i \in DOMAIN cands |-> score_candidate(cli, cands[i])],
              LAMBDA r : PassesThreshold(r.score_total))

B3TopN == 3

\* clients the scoring loop is applied to
ScoreClientes ==
    Range(ClientesBase["bdgd"]) \cup Range(ClientesBase["b3"]) \cup
    { [cod_id |-> "S1", point_x |-> 0, point_y |-> 0, logradouro_norm |-> NONE,
       numero_norm |-> NONE, bairro_norm |-> NONE, cep_norm |-> NONE,
       cnae_norm |-> CNAE_1, cnae_5dig |-> Prefix(CNAE_1, 5), municipio_nome |-> NONE],
      [cod_id |-> "S2", point_x |-> 0, point_y |-> 0, logradouro_norm |-> W_RUA \o SP \o W_BRASIL,
       numero_norm |-> NONE, bairro_norm |-> W_JARDIM \o SP \o W_NOVA, cep_norm |-> NONE,
       cnae_norm |-> NONE, cnae_5dig |-> NONE, municipio_nome |-> NONE] }

\* candidate lists the scoring loop is applied to
ScoreCandidatos ==
    { SelectSeq(CnpjCache, LAMBDA r : r.situacao_cadastral = "ATIVA"),
      SubSeq(CnpjCache, 2, 4),
      <<CnpjCache[6], CnpjCache[5]>>,
      <<CnpjCache[3]>> }

InitScore ==
    /\ MatchInit /\ LoaderInit /\ ImportInit
    /\ sc \in {[phase |-> "input", cli |-> cli, g |-> g, cands |-> cands] :
                  <<cli, g, cands>> \in ScoreClientes \X GeoAddrs \X ScoreCandidatos}

\* the scoring loop of the batch script, lines 533-609
ScoreBatch ==
    /\ sc.phase = "input"
    /\ sc' = [phase |-> "batch", cli |-> sc.cli, g |-> sc.g, cands |-> sc.cands,
              scored |-> ScoreAll(sc.cli, sc.g, sc.cands),
              rows |-> RankedRows(sc.cli.cod_id, ScoreAll(sc.cli, sc.g, sc.cands), BatchTopN)]
    /\ UNCHANGED <<matchVars, loaderVars, dl, importVars, calls>>

\* the scoring loop of refine
ScoreRefine ==
    /\ sc.phase = "input"
    /\ sc' = [phase |-> "refine", cli |-> sc.cli, g |-> sc.g, cands |-> sc.cands,
              scored |-> ScoreAll(sc.cli, sc.g, sc.cands),
              rows |-> RankedRows(sc.cli.cod_id, ScoreAll(sc.cli, sc.g, sc.cands), RefineTopN)]
    /\ UNCHANGED <<matchVars, loaderVars, dl, importVars, calls>>

\* the scoring loop of the B3 batch script, which reads no geocoded address
ScoreB3 ==
    /\ sc.phase = "input"
    /\ sc' = [phase |-> "b3", cli |-> sc.cli, g |-> sc.g, cands |-> sc.cands,
              scored |-> ScoreAllB3(sc.cli, sc.cands),
              rows |-> RankedRows(sc.cli.cod_id, ScoreAllB3(sc.cli, sc.cands), B3TopN)]
    /\ UNCHANGED <<matchVars, loaderVars, dl, importVars, calls>>

\* ------------------------------------------------ the text functions alone

\* normalizar_texto of the batch script, a copy of the one of the refine service
normalizar_texto_script(texto) ==
    CHOOSE r \in
        {IF ~Truthy(v) THEN NONE
         ELSE CHOOSE t \in {IF t3 = <<>> THEN NONE ELSE t3 :
                    t3 \in {Strip(CollapseSpaces(MapSeq(MapSeq(Strip(v), Upper),
                                                         PunctToSpace)))}} : TRUE :
            v \in {texto}} : TRUE

\* longest text the functions are applied to
MaxTextLen == 4

\* a lower-case letter, an upper-case letter, a digit, the underscore, a blank and a
\* punctuation mark
TextAlphabet == {"a", "B", "7", "_", " ", "."}

\* None, the empty string and the strings of up to MaxTextLen characters
TextInputs == {NONE} \cup UNION {[1..n -> TextAlphabet] : n \in 0..MaxTextLen}

InitText ==
    /\ MatchInit /\ LoaderInit /\ ImportInit
    /\ sc \in {[phase |-> "text", x |-> x] : x \in TextInputs}

\* normalizar_texto(normalizar_texto(x)) in the batch script
NormalizeScript ==
    /\ sc.phase = "text"
    /\ sc' = [phase |-> "normalized", copy |-> "script", x |-> sc.x,
              y |-> normalizar_texto_script(sc.x),
              yy |-> normalizar_texto_script(normalizar_texto_script(sc.x))]
    /\ UNCHANGED <<matchVars, loaderVars, dl, importVars, calls>>

\* _normalizar_texto(_normalizar_texto(x)) in the refine service
NormalizeService ==
    /\ sc.phase = "text"
    /\ sc' = [phase |-> "normalized", copy |-> "service", x |-> sc.x,
              y |-> normalizar_texto(sc.x),
              yy |-> normalizar_texto(normalizar_texto(sc.x))]
    /\ UNCHANGED <<matchVars, loaderVars, dl, importVars, calls>>

\* ------------------------------------------------------ B3 batch matching

\* b3_clientes as the B3 batch script reads it: B1 and clients without usable
\* coordinates, two of them at one postal code, one at a postal code without
\* companies and one without postal code
B3Clientes ==
    ClientesBase["b3"] \o
    << [cod_id |-> "B2", point_x |-> 0, point_y |-> 0,
        logradouro_norm |-> W_AV \o SP \o W_BRASIL, numero_norm |-> <<"5", "5">>,
        bairro_norm |-> W_JARDIM \o SP \o W_NOVA, cep_norm |-> CEP_B, cnae_norm |-> CNAE_2,
        cnae_5dig |-> Prefix(CNAE_2, 5), municipio_nome |-> W_PIRA],
       [cod_id |-> "B3", point_x |-> 0, point_y |-> 0,
        logradouro_norm |-> W_RUA \o SP \o W_BRASIL, numero_norm |-> NONE,
        bairro_norm |-> W_CENTRO, cep_norm |-> CEP_B, cnae_norm |-> CNAE_3,
        cnae_5dig |-> Prefix(CNAE_3, 5), municipio_nome |-> W_PIRA],
       [cod_id |-> "B4", point_x |-> 0, point_y |-> 0,
        logradouro_norm |-> W_RUA \o SP \o W_NOVA, numero_norm |-> NONE,
        bairro_norm |-> W_VILA, cep_norm |-> CEP_C, cnae_norm |-> NONE,
        cnae_5dig |-> NONE, municipio_nome |-> NONE],
       [cod_id |-> "B5", point_x |-> 0, point_y |-> 0,
        logradouro_norm |-> W_RUA \o SP \o W_NOVA, numero_norm |-> NONE,
        bairro_norm |-> W_VILA, cep_norm |-> <<"9", "9", "9", "9", "9", "0", "0", "0">>,
        cnae_norm |-> NONE, cnae_5dig |-> NONE, municipio_nome |-> NONE],
       [cod_id |-> "B6", point_x |-> 0, point_y |-> 0,
        logradouro_norm |-> W_RUA \o SP \o W_NOVA, numero_norm |-> NONE,
        bairro_norm |-> W_VILA, cep_norm |-> NONE,
        cnae_norm |-> NONE, cnae_5dig |-> NONE, municipio_nome |-> NONE] >>

\* insert_batch is flushed when it holds this many rows (10000 in the script)
B3FlushRows == 2

MaxB3Runs == 3

\* SELECT DISTINCT c.cep_norm FROM b3_cnpj_matches m JOIN b3_clientes c ON c.cod_id =
\* m.bdgd_cod_id WHERE c.cep_norm IS NOT NULL
CepsProcessados(tbl) ==
    {B3Clientes[i].cep_norm :
        i \in {j \in DOMAIN B3Clientes :
                  /\ B3Clientes[j].cep_norm # NONE
                  /\ \E k \in DOMAIN tbl : tbl[k].cod_id = B3Clientes[j].cod_id}}

\* SELECT cep_norm, COUNT(*) ... WHERE cep_norm IS NOT NULL AND cep_norm != '' GROUP BY cep_norm
CepCount(cep) == Cardinality({i \in DOMAIN B3Clientes : B3Clientes[i].cep_norm = cep})

\* ... ORDER BY cnt ASC: the orders the query may return the postal codes in
CepOrders ==
    {o \in SetOrders({B3Clientes[i].cep_norm :
                         i \in {j \in DOMAIN B3Clientes : Truthy(B3Clientes[j].cep_norm)}}) :
        \A i, j \in DOMAIN o : i < j => CepCount(o[i]) <= CepCount(o[j])}

\* if c not in ceps_processados
ResumeSkipsNone(cep, ceps_processados) == FALSE

ResumeSkips(cep, ceps_processados) == cep \in ceps_processados

\* the rows appended to insert_batch for the clients of one postal code
RECURSIVE B3RowsOfCep(_, _, _)
B3RowsOfCep(clientes, candidatos, i) ==
    IF i > Len(clientes) THEN <<>>
    ELSE RankedRows(clientes[i].cod_id, ScoreAllB3(clientes[i], candidatos), B3TopN)
            \o B3RowsOfCep(clientes, candidatos, i + 1)

\* executar_matching(conn, top_n, resume) up to the loop over the postal codes
B3Start ==
    /\ b3m.pc \in {"idle", "done"} /\ b3m.nruns < MaxB3Runs
    /\ \E resume \in BOOLEAN : \E order \in CepOrders :
         LET tbl == IF resume THEN matches["b3"] ELSE <<>>
             done == IF resume THEN CepsProcessados(tbl) ELSE {}
             all_ceps == SelectSeq(order, LAMBDA c : ~ResumeSkips(c, done))
         IN /\ matches' = [matches EXCEPT !["b3"] = tbl]
            /\ matches_seq' = [matches_seq EXCEPT !["b3"] = IF resume THEN @ ELSE 1]
            /\ b3m' = [b3m EXCEPT !.pc = IF all_ceps = <<>> THEN "final" ELSE "loop",
                                  !.todo = all_ceps, !.insert_batch = <<>>,
                                  !.ceps_processados = done, !.resume = resume,
                                  !.nruns = @ + 1]
    /\ UNCHANGED <<clientes_geo, geocode_cache, rs, bm, ncalls, okKeys, loaderVars, scoreVars, dl, importVars, calls>>

\* one pass of the loop: the candidates of a postal code, its clients, their rows,
\* and the flush of a full insert_batch
B3Cep ==
    /\ b3m.pc = "loop"
    /\ LET cep == Head(b3m.todo)
           candidatos == SelectByCep(registry, cep)
           clientes == SelectSeq(B3Clientes, LAMBDA c : c.cep_norm = cep)
           batch == IF candidatos = <<>> THEN b3m.insert_batch
                    ELSE b3m.insert_batch \o B3RowsOfCep(clientes, candidatos, 1)
           flush == candidatos # <<>> /\ Len(batch) >= B3FlushRows
       IN /\ matches' = IF flush
                        THEN [matches EXCEPT !["b3"] = @ \o WithIds(batch, matches_seq["b3"])]
                        ELSE matches
          /\ matches_seq' = IF flush THEN [matches_seq EXCEPT !["b3"] = @ + Len(batch)]
                            ELSE matches_seq
          /\ b3m' = [b3m EXCEPT !.todo = Tail(@),
                                !.insert_batch = IF flush THEN <<>> ELSE batch,
                                !.pc = IF Tail(b3m.todo) = <<>> THEN "final" ELSE "loop"]
    /\ UNCHANGED <<clientes_geo, geocode_cache, rs, bm, ncalls, okKeys, loaderVars, scoreVars, dl, importVars, calls>>

\* the final flush, and the run returns
B3FinalFlush ==
    /\ b3m.pc = "final"
    /\ matches' = [matches EXCEPT !["b3"] = @ \o WithIds(b3m.insert_batch, matches_seq["b3"])]
    /\ matches_seq' = [matches_seq EXCEPT !["b3"] = @ + Len(b3m.insert_batch)]
    /\ b3m' = [b3m EXCEPT !.pc = "done", !.insert_batch = <<>>]
    /\ UNCHANGED <<clientes_geo, geocode_cache, rs, bm, ncalls, okKeys, loaderVars, scoreVars, dl, importVars, calls>>

\* the script is killed: the rows not yet committed are lost
B3Interrupt ==
    /\ b3m.pc \in {"loop", "final"}
    /\ b3m' = [b3m EXCEPT !.pc = "idle", !.insert_batch = <<>>, !.todo = <<>>,
                          !.interrupted = @ + 1]
    /\ UNCHANGED <<clientes_geo, matches, matches_seq, geocode_cache, rs, bm, ncalls, okKeys, loaderVars, scoreVars, dl, importVars, calls>>

\* ------------------------------------------ the candidate generator alone

\* a registry with more active companies at one postal code than the postal-code
\* query returns, and two more at another postal code
BigRegistry ==
    [i \in 1..(CepLimit + 3) |->
        IF i <= CepLimit + 1 THEN PoolCompany(i, CEP_A, W_PIRA, CNAE_3)
        ELSE PoolCompany(i, CEP_B, W_PIRA, CNAE_3)]

\* a registry with one company at a postal code and more companies of one
\* municipality and CNAE elsewhere than the secondary query returns
MunRegistry ==
    [i \in 1..(MunLimit + 3) |->
        IF i = 1 THEN PoolCompany(i, CEP_A, W_PIRA, CNAE_1)
        ELSE IF i = 2 THEN PoolCompany(i, NONE, W_PIRA, CNAE_1)
        ELSE PoolCompany(i, CEP_C, W_PIRA, CNAE_1)]

\* registry contents the candidate generator is applied to
PoolRegistries == {CnpjCache, CnpjCacheLater, <<>>, BigRegistry, MunRegistry}

InitPool ==
    /\ MatchInit /\ LoaderInit /\ ImportInit
    /\ sc \in {[phase |-> "client", reg |-> reg, cli |-> cli, g |-> g, b |-> b] :
                  <<reg, cli, g, b>> \in
                      PoolRegistries \X Range(ClientesBase["bdgd"]) \X GeoAddrs \X BOOLEAN}

\* one client of a page of the batch script: ceps_busca, the postal-code queries,
\* the secondary query, the scoring loop
MatchOneBatch ==
    /\ sc.phase = "client"
    /\ CepsBusca(sc.cli.cep_norm, sc.g.cep) # {}
    /\ LET order == OrderOf(CepsBusca(sc.cli.cep_norm, sc.g.cep), sc.b)
           byCep == PoolByCeps(sc.reg, <<>>, order)
           pool == batch_candidatos(sc.reg, sc.cli, sc.g.cep, order)
       IN sc' = [phase |-> "batch_client", reg |-> sc.reg, cli |-> sc.cli, g |-> sc.g,
                 ceps |-> Range(order), byCep |-> byCep, pool |-> pool,
                 secondary |-> UsesSecondary(byCep, sc.cli),
                 scored |-> ScoreAll(sc.cli, sc.g, pool),
                 rows |-> RankedRows(sc.cli.cod_id, ScoreAll(sc.cli, sc.g, pool), BatchTopN)]
    /\ UNCHANGED <<matchVars, loaderVars, dl, importVars, calls>>

\* one client of a refine call: the same steps in the refine service
MatchOneRefine ==
    /\ sc.phase = "client"
    /\ CepsBusca(sc.cli.cep_norm, sc.g.cep) # {}
    /\ LET order == OrderOf(CepsBusca(sc.cli.cep_norm, sc.g.cep), sc.b)
           byCep == PoolByCeps(sc.reg, <<>>, order)
           pool == refine_candidatos(sc.reg, sc.cli, sc.g.cep, order)
       IN sc' = [phase |-> "refine_client", reg |-> sc.reg, cli |-> sc.cli, g |-> sc.g,
                 ceps |-> Range(order), byCep |-> byCep, pool |-> pool,
                 secondary |-> UsesSecondary(byCep, sc.cli),
                 scored |-> ScoreAll(sc.cli, sc.g, pool),
                 rows |-> RankedRows(sc.cli.cod_id, ScoreAll(sc.cli, sc.g, pool), RefineTopN)]
    /\ UNCHANGED <<matchVars, loaderVars, dl, importVars, calls>>

\* ------------------------------------------------------------ specifications

Next ==
    \/ \E s \in Sess : StartRefine(s)
    \/ \E s \in Sess : CacheLookup(s)
    \/ \E s \in Sess : SendRequest(s)
    \/ \E s \in Sess : Response(s)
    \/ \E s \in Sess : SleepDone(s)
    \/ \E s \in Sess : UpdateGeo(s)
    \/ \E s \in Sess : Rescore(s)
    \/ \E s \in Sess : Commit(s)
    \/ \E s \in Sess : Fail(s)
    \/ BatchStart
    \/ BatchPage
    \/ BatchFail

\* operations run one at a time
Spec == Init /\ [][Next]_vars

\* the matching database holds the sparse registry
InitSparse ==
    /\ MatchInit /\ LoaderInit /\ sc = NoScore
    /\ registry = CnpjCacheSparse
    /\ imp = NoImport
    /\ calls = <<>>

SpecSparse == InitSparse /\ [][Next]_vars

\* the two successful answers of the external service, as _reverse_geocode returns them
GeoRoad ==
    reverse_geocode(CHOOSE a \in NominatimAnswers :
                        a.kind = "ok" /\ "road" \in DOMAIN a.address)

GeoPedestrian ==
    reverse_geocode(CHOOSE a \in NominatimAnswers :
                        a.kind = "ok" /\ "pedestrian" \in DOMAIN a.address)

GeoColumns(geo) ==
    [logradouro |-> geo.logradouro, numero |-> geo.numero, bairro |-> geo.bairro,
     cep |-> geo.cep, municipio |-> geo.municipio, uf |-> geo.uf, status |-> "success"]

\* the database after two overlapping refine calls, one for A1 of bdgd_clientes and
\* one for B1 of b3_clientes, which share a coordinate: both asked the external
\* service, the first was answered GeoRoad, the second GeoPedestrian, and the
\* second committed last, so that the cache row of the coordinate holds its answer
InitStale ==
    /\ clientes_geo = [c \in AllCods |->
                          IF c = "A1" THEN GeoColumns(GeoRoad)
                          ELSE IF c = "B1" THEN GeoColumns(GeoPedestrian)
                          ELSE GeoNull]
    /\ matches = [ds \in DS |->
                     IF ds = "bdgd"
                     THEN WithIds(RefineRows(CnpjCache, "bdgd", "A1", GeoFields(GeoRoad), TRUE), 1)
                     ELSE WithIds(RefineRows(CnpjCache, "b3", "B1", GeoFields(GeoPedestrian),
                                             TRUE), 1)]
    /\ matches_seq = [ds \in DS |-> Len(matches[ds]) + 1]
    /\ geocode_cache = << [key |-> CoordKey(Cliente("bdgd", "A1"))]
                              @@ GeoColumns(GeoPedestrian) >>
    /\ rs = [s \in Sess |-> NoCall]
    /\ bm = NoBatch
    /\ b3m = NoB3
    /\ ncalls = 0
    /\ okKeys = {CoordKey(Cliente("bdgd", "A1"))}
    /\ LoaderInit /\ ImportInit /\ sc = NoScore

\* operations run one at a time after the two overlapping calls
SpecStale == InitStale /\ [][Next]_vars

NextService ==
    \/ \E s \in Sess : StartRefine(s)
    \/ \E s \in Sess : CallService(s)
    \/ \E s \in Sess : CacheLookup(s)
    \/ \E s \in Sess : SendRequest(s)
    \/ \E s \in Sess : Response(s)
    \/ \E s \in Sess : SleepDone(s)
    \/ \E s \in Sess : UpdateGeo(s)
    \/ \E s \in Sess : Rescore(s)
    \/ \E s \in Sess : Commit(s)
    \/ \E s \in Sess : Fail(s)

\* refine calls one at a time, through the route or on the service itself
SpecService == Init /\ [][NextService]_vars

NextImport ==
    \/ \E s \in Sess : StartRefine(s)
    \/ \E s \in Sess : CacheLookup(s)
    \/ \E s \in Sess : SendRequest(s)
    \/ \E s \in Sess : Response(s)
    \/ \E s \in Sess : SleepDone(s)
    \/ \E s \in Sess : UpdateGeo(s)
    \/ \E s \in Sess : Rescore(s)
    \/ \E s \in Sess : Commit(s)
    \/ \E s \in Sess : Fail(s)
    \/ ImportStart
    \/ ImportBatch

\* refine calls one at a time, the registry re-imported between them
SpecImport == Init /\ [][NextImport]_vars

NextConc ==
    \/ \E s \in Sess : StartRefineConc(s)
    \/ \E s \in Sess : CacheLookup(s)
    \/ \E s \in Sess : SendRequest(s)
    \/ \E s \in Sess : Response(s)
    \/ \E s \in Sess : SleepDone(s)
    \/ \E s \in Sess : UpdateGeo(s)
    \/ \E s \in Sess : Rescore(s)
    \/ \E s \in Sess : Commit(s)
    \/ \E s \in Sess : Fail(s)

\* refine calls of different workers overlap
SpecConc == Init /\ [][NextConc]_vars

NextBatchConc ==
    \/ BatchStart
    \/ BatchPage
    \/ BatchFail
    \/ \E s \in Sess : StartRefineInBatch(s)
    \/ \E s \in Sess : CacheLookup(s)
    \/ \E s \in Sess : SendRequest(s)
    \/ \E s \in Sess : Response(s)
    \/ \E s \in Sess : SleepDone(s)
    \/ \E s \in Sess : UpdateGeo(s)
    \/ \E s \in Sess : Rescore(s)
    \/ \E s \in Sess : Commit(s)
    \/ \E s \in Sess : Fail(s)

\* refine calls served while the batch script runs
SpecBatchConc == Init /\ [][NextBatchConc]_vars

NextB3 ==
    \/ B3Start
    \/ B3Cep
    \/ B3FinalFlush
    \/ B3Interrupt

\* runs of the B3 batch script, killed and started again
SpecB3 == Init /\ [][NextB3]_vars

NextLoad ==
    \/ LoadStart
    \/ LoadLookups
    \/ Prescan
    \/ LoadSimples
    \/ LoadEmpresas
    \/ Truncate
    \/ StreamRow
    \/ FinalFlush
    \/ LoadSocios
    \/ Cleanup
    \/ LoadFail

\* runs of the bulk loader
SpecLoad == Init /\ [][NextLoad]_vars

NextDownload ==
    \/ DownloadStart
    \/ DownloadFile

\* calls of download_all
SpecDownload == Init /\ [][NextDownload]_vars

NextScore ==
    \/ ScoreBatch
    \/ ScoreRefine
    \/ ScoreB3

\* the scoring loops applied to given clients and candidates
SpecScore == InitScore /\ [][NextScore]_vars

NextText ==
    \/ NormalizeScript
    \/ NormalizeService

\* the text functions applied to given strings
SpecText == InitText /\ [][NextText]_vars

NextPool ==
    \/ MatchOneBatch
    \/ MatchOneRefine

\* the candidate generator and the scoring loop applied to given clients and registries
SpecPool == InitPool /\ [][NextPool]_vars

\* ------------------------------------------------------------------ claims

\* every match row there is: committed, or written by a call that has not committed yet
AllMatchRows ==
    UNION {Range(matches[ds]) : ds \in DS} \cup UNION {Range(rs[s].tx_ins) : s \in Sess}

ClienteOf(cod) == Cliente(CHOOSE ds \in DS : cod \in CodIds(ds), cod)

CandidateOf(cnpj) == CnpjCache[CHOOSE i \in DOMAIN CnpjCache : CnpjCache[i].cnpj = cnpj]

\* the address components a row of (client, company, source) can carry
ComponentsTable ==
    {<<cli.cod_id, cand.cnpj, "bdgd",
       score_endereco(cli.logradouro_norm, cli.numero_norm, cli.bairro_norm, cli.cep_norm,
                      cand.logradouro, cand.numero, cand.bairro, cand.cep)>> :
        <<cli, cand>> \in (UNION {Range(ClientesBase[d]) : d \in DS}) \X Range(CnpjCache)}
    \cup
    {<<cod, cand.cnpj, "geocoded",
       score_endereco(g.logradouro, g.numero, g.bairro, g.cep,
                      cand.logradouro, cand.numero, cand.bairro, cand.cep)>> :
        <<cod, cand, g>> \in AllCods \X Range(CnpjCache) \X GeoAddrs}

\* C1: every match row written by batch matching or by refine has a total between 0
\* and 100 that equals the sum of its five persisted components, and the four address
\* components are those of the address source named by the row.
C1_ScoreBoundsAndSum ==
    \A row \in AllMatchRows :
        /\ 0 <= row.score_total /\ row.score_total <= 10000
        /\ row.score_total = row.score_cep + row.score_cnae + row.score_endereco
                                + row.score_numero + row.score_bairro
        /\ row.score_cnae = score_cnae(ClienteOf(row.cod_id).cnae_norm,
                                       ClienteOf(row.cod_id).cnae_5dig,
                                       CandidateOf(row.cnpj).cnae_fiscal)
        /\ <<row.cod_id, row.cnpj, row.address_source,
             <<row.score_cep, row.score_endereco, row.score_numero, row.score_bairro>>>>
               \in ComponentsTable

\* a batch run has written a row whose geocoded address won, with the maximum total, next
\* to a row scored on the original address
C1_Witness ==
    /\ bm.pc = "idle" /\ bm.total > 0
    /\ \E row \in Range(matches["bdgd"]) :
          row.address_source = "geocoded" /\ row.score_total = 10000
    /\ \E row \in Range(matches["bdgd"]) :
          row.address_source = "bdgd" /\ row.score_total > 0

\* C2: with batch runs and refine calls executed one at a time, the ranks of the match
\* rows of every client are exactly 1..k, each used once, with k <= N = 3, and
\* score_total does not increase as rank increases.
C2_RanksDense ==
    \A ds \in DS : \A cod \in CodIds(ds) :
        LET rows == RowsOf(matches[ds], cod)
        IN /\ Len(rows) <= RefineTopN /\ Len(rows) <= BatchTopN
           /\ {rows[i].rank : i \in DOMAIN rows} = 1..Len(rows)
           /\ \A i, j \in DOMAIN rows :
                 rows[i].rank < rows[j].rank => rows[i].score_total >= rows[j].score_total

\* a refine call of two clients has completed and left client A2, who has five candidates
\* above the threshold, with three rows of different totals
C2_Witness ==
    /\ \E s \in Sess : rs[s].pc = "done" /\ rs[s].ds = "bdgd" /\ rs[s].ret.refined = 2
    /\ LET rows == RowsOf(matches["bdgd"], "A2")
       IN Len(rows) = 3 /\ rows[1].score_total > rows[3].score_total

\* C5: the geocode cache never holds two rows with the same rounded-coordinate key, also
\* when BDGD and B3 refine calls overlap and geocode the same bucket; the commit of a
\* geocode for a key already in the cache updates that row in place.
C5_CacheKeyUnique ==
    [][/\ \A i, j \in DOMAIN geocode_cache' :
            geocode_cache'[i].key = geocode_cache'[j].key => i = j
       /\ \A s \in Sess :
            (rs[s].pc = "commit" /\ rs'[s].pc = "done") =>
                /\ \A i \in DOMAIN geocode_cache :
                      geocode_cache'[i].key = geocode_cache[i].key
                /\ \A i \in DOMAIN rs[s].tx_cache :
                      \E j \in DOMAIN geocode_cache' : geocode_cache'[j] = rs[s].tx_cache[i]]_vars

\* a BDGD call and a B3 call have both geocoded a key and committed, and the cache holds
\* one row
C5_Witness ==
    /\ \A s \in Sess : rs[s].pc = "done" /\ rs[s].ret.geocoded = 1
    /\ \E s, t \in Sess : rs[s].ds = "bdgd" /\ rs[t].ds = "b3"
    /\ Len(geocode_cache) = 1

\* C6: after the external service has answered a key with success during some refine
\* call, no refine call started later sends a request for that key, and one call sends
\* each key at most once.
C6_NoRequestAfterSuccess ==
    \A s \in Sess :
        /\ rs[s].pc = "inflight" => rs[s].coords[rs[s].idx] \notin rs[s].okAtStart
        /\ \A i, j \in DOMAIN rs[s].reqKeys : rs[s].reqKeys[i] = rs[s].reqKeys[j] => i = j

\* the geocode cache as the transaction of worker s sees it
CacheView(s) == CacheApply(geocode_cache, rs[s].tx_cache)

\* C7: when the external call for a key fails, the refiner upserts a cache entry with
\* status 'error' for that key, and does not send the key again in the same call.
C7_ErrorCached ==
    \A s \in Sess :
        /\ \A k \in rs[s].errKeys :
              \E i \in DOMAIN CacheView(s) :
                  CacheView(s)[i].key = k /\ CacheView(s)[i].status = "error"
        /\ \A i, j \in DOMAIN rs[s].reqKeys : rs[s].reqKeys[i] = rs[s].reqKeys[j] => i = j

\* C8: at most one request to the external service is in flight at any time, and a
\* request is not sent while the delay after the previous one is running, also when
\* several refine calls run at the same time.
C8_OneInFlight ==
    Cardinality({s \in Sess : rs[s].pc \in {"inflight", "sleep"}}) <= 1

\* C9: the match table changes only when a batch page or a refine call commits; at the
\* commit of a refine call every client has either the rows it had or exactly the new
\* rows the call wrote for it, and a call that fails leaves every table as it was.
C9_ReplaceAtomic ==
    [][/\ \A ds \in DS :
            matches'[ds] # matches[ds] =>
                \/ ds = "bdgd" /\ bm' # bm
                \/ \E s \in Sess :
                      /\ rs[s].pc = "commit" /\ rs'[s].pc = "done" /\ rs[s].ds = ds
                      /\ \A cod \in CodIds(ds) :
                            \/ RowsOf(matches'[ds], cod) = RowsOf(matches[ds], cod)
                            \/ /\ RowsOf(matches'[ds], cod) = RowsOf(rs[s].tx_ins, cod)
                               /\ RowsOf(rs[s].tx_ins, cod) # <<>>
       /\ \A s \in Sess :
            (rs[s].pc # "failed" /\ rs'[s].pc = "failed") =>
                /\ matches' = matches
                /\ clientes_geo' = clientes_geo
                /\ geocode_cache' = geocode_cache]_vars

\* a refine call of client A1 alone has committed without improving the best score: the
\* rows A1 had were replaced
C9_Witness ==
    /\ \E s \in Sess : /\ rs[s].pc = "done" /\ rs[s].ds = "bdgd"
                       /\ rs[s].ret.refined = 1 /\ rs[s].ret.improved = 0
    /\ RowsOf(matches["bdgd"], "A1") # <<>>
    /\ \A row \in Range(RowsOf(matches["bdgd"], "A1")) : row.id > 2

\* C3: after a bulk loader run completes, the first 8 digits of every registry row's
\* tax ID are in the set "active base IDs of the pre-scan minus the micro-entrepreneur
\* subset" the run computed; no row has a non-active status and none is of a
\* micro-entrepreneur base ID.
C3_RegistryActiveNonMei ==
    ld.pc \in {"socios", "cleanup", "done"} =>
        \A row \in Range(cnpj_cache) :
            /\ Prefix(row.cnpj, 8) \in ld.needed \ ld.mei
            /\ Prefix(row.cnpj, 8) \in ld.final
            /\ row.situacao_cadastral = "ATIVA"
            /\ Prefix(row.cnpj, 8) \notin ld.mei
            /\ \E i \in DOMAIN ld.estab :
                  /\ Strip(ld.estab[i].basico) \o Strip(ld.estab[i].ordem)
                        \o Strip(ld.estab[i].dv) = row.cnpj
                  /\ Strip(ld.estab[i].situacao) = SITUACAO_ATIVA

\* a run has completed that skipped inactive rows and micro-entrepreneur rows and
\* loaded others
C3_Witness ==
    /\ ld.pc = "done" /\ Len(cnpj_cache) >= 2
    /\ ld.mei # {} /\ ld.mei_skipped > 0 /\ ld.skipped > 0

\* C4: when a bulk loader run fails before its final write of company rows has
\* completed (in any of stages 1-5), the registry holds exactly the rows it held
\* before the run started.
C4_FailureLeavesRegistry ==
    (ld.pc = "failed" /\ ld.failedAt <= 5) => cnpj_cache = ld.before

\* C10: the scoring loops of batch matching, refine and B3 batch matching discard every
\* candidate whose chosen total is below 15 and keep every candidate whose total is at
\* least 15, a total of exactly 15 included; the rows written are the best N of those
\* kept, so no row has a total below 15.
C10_ThresholdInclusive ==
    sc.phase \in {"batch", "refine", "b3"} =>
        LET totals == [i \in DOMAIN sc.cands |->
                          IF sc.phase = "b3" THEN score_candidate(sc.cli, sc.cands[i]).score_total
                          ELSE ScoreCandidate(sc.cli, sc.g, sc.cands[i]).score_total]
            above == {i \in DOMAIN sc.cands : totals[i] >= 1500}
        IN /\ {sc.scored[i].cnpj : i \in DOMAIN sc.scored} = {sc.cands[i].cnpj : i \in above}
           /\ Len(sc.scored) = Cardinality(above)
           /\ Len(sc.rows) = Min(3, Cardinality(above))
           /\ \A i \in DOMAIN sc.rows : sc.rows[i].score_total >= 1500
           /\ \A i \in DOMAIN sc.rows : \A j \in above :
                 (\A k \in DOMAIN sc.rows : sc.rows[k].cnpj # sc.cands[j].cnpj)
                    => sc.rows[i].score_total >= totals[j]

\* a loop has kept a candidate whose total is exactly 15 and written a row for it, and
\* has discarded another candidate
C10_Witness ==
    /\ sc.phase \in {"batch", "refine", "b3"}
    /\ \E i \in DOMAIN sc.rows : sc.rows[i].score_total = 1500
    /\ Len(sc.scored) < Len(sc.cands)

\* the two totals of a candidate, computed from the scorer: <<against the original
\* address, against the geocoded address>>, the second 0 without a geocoded address
TwoTotals(cli, g, cand) ==
    CHOOSE t \in
        {<<b[1] + b[2] + b[3] + b[4] + s_cnae,
           IF Truthy(g.cep) \/ Truthy(g.logradouro)
           THEN gs[1] + gs[2] + gs[3] + gs[4] + s_cnae ELSE 0>> :
            s_cnae \in {score_cnae(cli.cnae_norm, cli.cnae_5dig, cand.cnae_fiscal)},
            b \in {score_endereco(cli.logradouro_norm, cli.numero_norm, cli.bairro_norm,
                                  cli.cep_norm, cand.logradouro, cand.numero, cand.bairro,
                                  cand.cep)},
            gs \in {score_endereco(g.logradouro, g.numero, g.bairro, g.cep,
                                   cand.logradouro, cand.numero, cand.bairro, cand.cep)}} : TRUE

\* C11: for every candidate the batch script or refine keeps, the total is the larger of
\* the score against the original address and the score against the geocoded address,
\* each of the two holding the tax-classification points once, and address_source is
\* 'geocoded' exactly when the geocoded score is strictly higher; a tie keeps 'bdgd'.
C11_DualSourceMax ==
    sc.phase \in {"batch", "refine"} =>
        \A i \in DOMAIN sc.scored :
            \A t \in {TwoTotals(sc.cli, sc.g, CandidateOf(sc.scored[i].cnpj))} :
                /\ sc.scored[i].score_total = Max(t[1], t[2])
                /\ sc.scored[i].address_source = "geocoded" <=> t[2] > t[1]
                /\ sc.scored[i].address_source \in {"geocoded", "bdgd"}
                /\ sc.scored[i].score_cnae
                      = score_cnae(sc.cli.cnae_norm, sc.cli.cnae_5dig,
                                   CandidateOf(sc.scored[i].cnpj).cnae_fiscal)

\* a client with a geocoded address has one candidate whose geocoded score is strictly
\* higher and one whose two scores are equal and not zero, kept with source 'bdgd'
C11_Witness ==
    /\ sc.phase \in {"batch", "refine"}
    /\ Truthy(sc.g.cep)
    /\ \E i, j \in DOMAIN sc.scored :
          /\ sc.scored[i].address_source = "geocoded"
          /\ sc.scored[i].score_cnae > 0
          /\ sc.scored[j].address_source = "bdgd"
          /\ \A t \in {TwoTotals(sc.cli, sc.g, CandidateOf(sc.scored[j].cnpj))} :
                t[1] = t[2] /\ t[1] > sc.scored[j].score_cnae

\* C12: a run of the bulk loader enters its stages in the order 1 (lookups), 2 (pre-scan),
\* 3 (simplified tax regime), 4 (companies), 5 (main pass), 6 (partners), 7 (cleanup),
\* each once and each after the previous one has returned; when a stage raises no later
\* stage is entered, and the downloaded files are still there if the failure was before
\* the cleanup.
C12_StagesInOrder ==
    /\ ld.hist = [i \in 1..Len(ld.hist) |-> i]
    /\ Len(ld.hist) <= 7
    /\ ld.pc \notin {"idle", "done", "failed"} => LoadStage(ld.pc) = Len(ld.hist)
    /\ ld.pc = "done" => Len(ld.hist) = 7 /\ ld.failedAt = 0
    /\ ld.pc = "failed" =>
          /\ Len(ld.hist) = ld.failedAt
          /\ ld.failedAt < 7 => ld.zips
    /\ ld.pc \notin {"idle", "done", "failed"} => ld.failedAt = 0 /\ ld.zips
    /\ ~ld.zips => ld.delete_after /\ Len(ld.hist) = 7

\* a second run, called with delete_after, has failed in the partners stage: it has
\* entered stages 1 to 6 and its files are still there
C12_Witness ==
    /\ ld.pc = "failed" /\ ld.failedAt = 6 /\ ld.nruns = 2
    /\ ld.hist = <<1, 2, 3, 4, 5, 6>> /\ ld.zips /\ ld.delete_after

\* C13: normalizar_texto is idempotent in both copies: normalising a normalised text
\* gives the same text, and None stays None.
C13_NormalizeIdempotent ==
    sc.phase = "normalized" =>
        /\ sc.yy = sc.y
        /\ sc.x = NONE => sc.y = NONE
        /\ sc.y # NONE =>
              /\ sc.y # <<>>
              /\ \A i \in DOMAIN sc.y : IsWord(sc.y[i]) \/ IsSpace(sc.y[i])
              /\ \A i \in DOMAIN sc.y : Upper(sc.y[i]) = sc.y[i]
              /\ ~IsSpace(sc.y[1]) /\ ~IsSpace(sc.y[Len(sc.y)])
              /\ \A i \in 1..(Len(sc.y) - 1) : ~(IsSpace(sc.y[i]) /\ IsSpace(sc.y[i + 1]))

\* a text with a lower-case letter, a punctuation mark and a blank in a row has been
\* normalised to a shorter text of two words
C13_Witness ==
    /\ sc.phase = "normalized" /\ sc.copy = "script"
    /\ sc.x = <<"a", ".", " ", "B">>
    /\ sc.y = <<"A", " ", "B">>

\* the street a kept candidate was scored against, by the source of its row
RefStreet(r) == IF r.address_source = "geocoded" THEN sc.g.logradouro ELSE sc.cli.logradouro_norm

\* the kept candidates of the example: reference street "RUA DAS FLORES", candidate
\* street normalised to "R FLORES"
ExamplePairs ==
    IF sc.phase \in {"batch", "refine"}
    THEN {i \in DOMAIN sc.scored :
            /\ RefStreet(sc.scored[i]) = W_RUA \o SP \o W_DAS \o SP \o W_FLORES
            /\ normalizar_texto(CandidateOf(sc.scored[i].cnpj).logradouro)
                  = <<"R">> \o SP \o W_FLORES}
    ELSE {}

\* C14, as amended: for client street "RUA DAS FLORES" and candidate street "R FLORES"
\* the length filter (words longer than 2 characters) leaves the word sets
\* {RUA, DAS, FLORES} and {FLORES}, the Jaccard similarity is 1/3 and the street
\* component is 6.67.
C14_StreetExample ==
    \A i \in ExamplePairs :
        /\ LongWords(RefStreet(sc.scored[i])) = {W_RUA, W_DAS, W_FLORES}
        /\ LongWords(<<"R">> \o SP \o W_FLORES) = {W_FLORES}
        /\ sc.scored[i].score_endereco = 667

\* C14, as stated: for client street "RUA DAS FLORES" and candidate street "R FLORES"
\* the length filter leaves the word sets {FLORES} and {FLORES}, the Jaccard similarity
\* is 1 and the street component is 20.
C14_StreetExampleAsStated ==
    \A i \in ExamplePairs :
        /\ LongWords(RefStreet(sc.scored[i])) = {W_FLORES}
        /\ LongWords(<<"R">> \o SP \o W_FLORES) = {W_FLORES}
        /\ sc.scored[i].score_endereco = 2000

\* the batch loop has scored the pair of the example and kept the candidate
C14_Witness ==
    /\ sc.phase = "batch"
    /\ ExamplePairs # {}
    /\ \E i \in ExamplePairs : sc.scored[i].address_source = "bdgd"

\* C15: a refine call processes only clients among the first 100 ids of its input, hence
\* at most 100 clients and at most 100 external requests, one per client at most; and
\* a list of more than 100 ids sent to the route is rejected with nothing processed.
C15_AtMostHundred ==
    \A s \in Sess :
        /\ Len(rs[s].clientes) <= 100
        /\ Len(rs[s].reqKeys) <= 100
        /\ Len(rs[s].coords) + Len(rs[s].tocheck) <= Len(rs[s].clientes)
        /\ Len(rs[s].reqKeys) <= Len(rs[s].coords)
        /\ \A i \in DOMAIN rs[s].clientes :
              \E j \in DOMAIN rs[s].input : j <= 100 /\ rs[s].input[j] = rs[s].clientes[i]
        /\ Len(rs[s].input) > 100 /\ rs[s].via = "route" =>
              /\ rs[s].pc = "rejected"
              /\ rs[s].clientes = <<>> /\ rs[s].reqKeys = <<>>
              /\ rs[s].tx_ins = <<>> /\ rs[s].tx_cache = <<>> /\ rs[s].tx_geo = <<>>
        /\ rs[s].pc = "rejected" => Len(rs[s].input) > 100

\* the route has rejected a list of 101 ids, and the service, called with the same list,
\* has sent a request for its 100th client and left out the 101st
C15_Witness ==
    \E s, t \in Sess :
        /\ rs[s].pc = "rejected" /\ Len(rs[s].input) = 101
        /\ rs[t].pc = "sleep" /\ rs[t].via = "service" /\ Len(rs[t].input) = 101
        /\ rs[t].clientes = <<"A2">> /\ Len(rs[t].reqKeys) = 1

\* C16: no row of the streamed files aborts the main pass: a row with too few columns, a
\* tax ID that is not 14 characters long or a field that does not parse as a number or
\* a date is left out and the pass goes on, so no run fails on a row.
C16_BadRowNeverAborts ==
    /\ ld.badrow = 0
    /\ ld.pc = "stream" =>
          \A i \in 1..(ld.pos - 1) :
              RowOutcome(ld.estab[i], ld.mei) \in {"short", "skipped", "mei", "record"}

\* the number of requests a refine call has sent for key k
Requests(s, k) == Cardinality({i \in DOMAIN rs[s].reqKeys : rs[s].reqKeys[i] = k})

\* C17: a failed request of the download or of reverse geocoding is sent again, and when
\* the operation gives up it reports the error to its caller; files already downloaded
\* are kept.
C17_RetryThenSurface ==
    /\ dl.pc = "done" =>
          /\ \A f \in dl.logged : dl.attempts[f] > 1
          /\ dl.logged # {} => dl.ret = "raised"
    /\ \A f \in Range(DownloadFiles) :
          dl.pc # "idle" /\ f \in Range(dl.downloaded) => dl.disk[f] = "complete"
    /\ \A s \in Sess : \A k \in rs[s].errKeys : Requests(s, k) > 1

\* C18: when a batch matching run has failed or was interrupted, every client whose new
\* rows the run has not written yet still has the rows it had before the run started.
C18_FailureKeepsOldRows ==
    (bm.failed /\ bm.run = ncalls) =>
        \A cod \in CodIds("bdgd") :
            (\A i \in 1..Min(bm.offset, Len(BatchClientes)) : BatchClientes[i].cod_id # cod)
                => RowsOf(matches["bdgd"], cod) = RowsOf(bm.before, cod)

\* a match row without its surrogate key
StripId(row) == [f \in DOMAIN row \ {"id"} |-> row[f]]

RowSet(tbl) == {StripId(tbl[i]) : i \in DOMAIN tbl}

\* the external service gave call e2 the answer it gave call e1, for every
\* coordinate both asked for
SameAnswers(e1, e2) ==
    /\ \A i \in DOMAIN e2.ok :
          /\ e2.ok[i].key \notin e1.err
          /\ \A j \in DOMAIN e1.ok : e1.ok[j].key = e2.ok[i].key => e1.ok[j] = e2.ok[i]
    /\ \A j \in DOMAIN e1.ok : e1.ok[j].key \notin e2.err

\* calls[i] and calls[i + 1] are refine calls with the same ids, on the same
\* registry, answered the same way
RunTwice(i) ==
    /\ calls[i].kind = "refine" /\ calls[i + 1].kind = "refine"
    /\ calls[i].ds = calls[i + 1].ds /\ calls[i].input = calls[i + 1].input
    /\ calls[i].reg = calls[i + 1].reg
    /\ SameAnswers(calls[i], calls[i + 1])

RowsLeft(e, cod) == RowSet(RowsOf(e.rows, cod))

\* C20: after a refine call, the rows of every client of the call that has
\* usable coordinates are exactly the top rows of the score set the call
\* computed for it, also when that set is smaller than before or empty
C20_RescoreReplacesRows ==
    \A i \in DOMAIN calls :
        calls[i].kind = "refine" =>
            \A k \in DOMAIN calls[i].clientes :
                \E b \in BOOLEAN :
                    RowsLeft(calls[i], calls[i].clientes[k]) =
                        Range(RefineRows(calls[i].reg, calls[i].ds, calls[i].clientes[k],
                                         GeoFields(calls[i].geo[calls[i].clientes[k]]), b))

\* the candidate generator has been applied to a client
PoolDone == sc.phase \in {"batch_client", "refine_client"}

\* C21: the candidate pool built for one client, in the batch run and in a
\* refine call, never holds two candidates with the same tax ID and never more
\* than 200 candidates, also with two postal codes and the secondary lookup
C21_PoolDedupCapped ==
    PoolDone =>
        /\ \A i, j \in DOMAIN sc.pool : sc.pool[i].cnpj = sc.pool[j].cnpj => i = j
        /\ Len(sc.pool) <= CepLimit

\* what the secondary lookup added to the pool of the postal-code lookups
PoolAdded == SubSeq(sc.pool, Len(sc.byCep) + 1, Len(sc.pool))

\* active companies of the client's municipality and CNAE at no searched postal code
SecondaryEligible ==
    SelectSeq(sc.reg, LAMBDA r : /\ r.municipio # NONE
                                 /\ MapSeq(r.municipio, Upper) = sc.cli.municipio_nome
                                 /\ r.cnae_fiscal = sc.cli.cnae_norm
                                 /\ r.situacao_cadastral = "ATIVA"
                                 /\ r.cep \notin sc.ceps)

PassingCnpjs ==
    {RowRecord(ld.estab[i]).cnpj :
        i \in {j \in DOMAIN ld.estab : RowOutcome(ld.estab[j], ld.mei) = "record"}}

\* C23: when the same 14-digit tax ID is in more than one passing establishment
\* row, the bulk loader run does not stop at it, and once the main pass is over
\* the registry holds exactly one row for every passing tax ID
C23_DuplicateKeepsLast ==
    /\ ~ld.conflict
    /\ ld.pc \in {"socios", "cleanup", "done"} =>
          \A c \in PassingCnpjs :
              Cardinality({i \in DOMAIN cnpj_cache : cnpj_cache[i].cnpj = c}) = 1

\* the partner rows of a base ID, in input order
PartnerRowsOf(basico) ==
    SelectSeq(SociosRows, LAMBDA r : r.ncols >= 7 /\ Strip(r.basico) = basico)

\* the role of a partner row: the description of its qualification code, the code
\* itself when the lookup table lacks it, else the empty string
PartnerRole(r) ==
    IF r.qual = NONE \/ Strip(r.qual) = <<>> THEN <<>>
    ELSE IF Strip(r.qual) \in DOMAIN Qualificacoes /\ Qualificacoes[Strip(r.qual)] # <<>>
         THEN Qualificacoes[Strip(r.qual)]
         ELSE Strip(r.qual)

\* C24: after load_socios every registry row whose base ID has partner rows holds
\* the list of the (name, role) entries of all those rows in input order; the rows
\* without partner rows keep their ownership data; no other column and no row
\* count has changed
C24_SociosFrame ==
    [][(ld.pc = "socios" /\ ld'.pc = "cleanup") =>
          /\ Len(cnpj_cache') = Len(cnpj_cache)
          /\ \A i \in DOMAIN cnpj_cache :
                LET old == cnpj_cache[i]
                    new == cnpj_cache'[i]
                    rows == PartnerRowsOf(Prefix(old.cnpj, 8))
                IN /\ [f \in DOMAIN new \ {"socios"} |-> new[f]]
                        = [f \in DOMAIN old \ {"socios"} |-> old[f]]
                   /\ IF rows = <<>> THEN new.socios = old.socios
                      ELSE /\ Len(new.socios) = Len(rows)
                           /\ \A k \in DOMAIN rows :
                                 /\ new.socios[k].nome =
                                       (IF rows[k].nome = NONE THEN <<>> ELSE Strip(rows[k].nome))
                                 /\ new.socios[k].qualificacao = PartnerRole(rows[k])]_vars

\* load_socios has run on a registry with a row of two partners, the second with an
\* empty name and a bare qualification code, and a row without partners
C24_Witness ==
    /\ ld.pc \in {"cleanup", "done"}
    /\ \E i \in DOMAIN cnpj_cache :
          /\ Len(cnpj_cache[i].socios) = 2
          /\ cnpj_cache[i].socios[1] =
                [nome |-> <<"A", "N", "A">>, qualificacao |-> <<"S", "O", "C", "I", "O">>]
          /\ cnpj_cache[i].socios[2] = [nome |-> <<>>, qualificacao |-> <<"9", "9">>]
    /\ \E i \in DOMAIN cnpj_cache : cnpj_cache[i].socios = <<>>

\* C25: when a refine call runs concurrently with a batch run over the same
\* clients, no client ends with two rows of the same rank or with more than N
\* rows, and the batch run processes every client that was eligible when it
\* started exactly once, and no other client
C25_BatchRefineConcurrent ==
    /\ \A cod \in CodIds("bdgd") :
          LET rows == RowsOf(matches["bdgd"], cod)
          IN /\ Len(rows) <= BatchTopN
             /\ \A i, j \in DOMAIN rows : rows[i].rank = rows[j].rank => i = j
    /\ (bm.pc = "idle" /\ bm.run > 0 /\ ~bm.failed) =>
          \A cod \in CodIds("bdgd") :
              Cardinality({i \in DOMAIN bm.processed : bm.processed[i] = cod})
                  = IF cod \in bm.eligible THEN 1 ELSE 0

\* C26: every candidate retrieved by the postal-code lookup, for the original or
\* the geocoded postal code, gets a chosen total of at least 40 points and is not
\* discarded by the threshold; so every client with at least one postal-code
\* candidate gets a rank-1 row with score_total >= 40, in batch and refine
C26_CepCandidateScoresForty ==
    PoolDone =>
        /\ \A i \in DOMAIN sc.byCep :
              \E k \in DOMAIN sc.scored :
                  /\ sc.scored[k].cnpj = sc.byCep[i].cnpj
                  /\ sc.scored[k].score_total >= 4000
        /\ sc.byCep # <<>> =>
              /\ sc.rows # <<>>
              /\ sc.rows[1].rank = 1 /\ sc.rows[1].score_total >= 4000

\* a candidate found at the geocoded postal code only, which the client's own
\* address scores below 40 points, was kept with the geocoded address as source
C26_Witness ==
    /\ sc.phase = "refine_client"
    /\ \E k \in DOMAIN sc.scored :
          /\ sc.scored[k].address_source = "geocoded"
          /\ sc.scored[k].score_cep = 4000
          /\ \E i \in DOMAIN sc.byCep :
                /\ sc.byCep[i].cnpj = sc.scored[k].cnpj
                /\ sc.byCep[i].cep = sc.g.cep /\ sc.byCep[i].cep # sc.cli.cep_norm
                /\ sc.scored[k].score_total - 4000 < 4000
    /\ sc.rows[1].score_total >= 4000

\* C27: the B3 batch scorer gives every client and candidate the total and the
\* five components the BDGD scorer gives them from the client's original
\* address, so the two scoring loops keep the same scored candidates
C27_B3ScorerSame ==
    sc.phase = "b3" => sc.scored = ScoreAll(sc.cli, GeoFields(GeoNull), sc.cands)

\* C28: a refine call leaves the geocoded fields of every client whose geo status
\* was 'success' when the call started as they were, also when another client of
\* the call shares its rounded coordinate and is geocoded in the call
C28_SuccessGeoUntouched ==
    [][\A s \in Sess :
          (rs[s].pc = "commit" /\ rs'[s].pc = "done") =>
              \A i \in DOMAIN rs[s].clientes :
                  rs[s].snap[i].status = "success" =>
                      clientes_geo'[rs[s].clientes[i]] = rs[s].snap[i]]_vars

\* C29: B3 batch matching in resume mode never duplicates matches: however the
\* runs are interrupted and resumed, no client has more than top_n rows and no
\* two rows of a client share a rank
C29_ResumeNoDuplicates ==
    \A i \in DOMAIN B3Clientes :
        LET rows == RowsOf(matches["b3"], B3Clientes[i].cod_id)
        IN /\ Len(rows) <= B3TopN
           /\ \A j, k \in DOMAIN rows : rows[j].rank = rows[k].rank => j = k

\* a run was killed after it had committed the rows of some postal codes, and a
\* resumed run that skipped those postal codes has completed with rows of others
C29_Witness ==
    /\ b3m.pc = "done" /\ b3m.resume /\ b3m.interrupted > 0
    /\ b3m.ceps_processados # {}
    /\ CepsProcessados(matches["b3"]) \ b3m.ceps_processados # {}

\* score_total of the rank-1 row of a client, 0 without rows
BestScore(tbl, cod) ==
    LET best == SelectSeq(RowsOf(tbl, cod), LAMBDA row : row.rank = 1)
    IN IF best = <<>> THEN 0 ELSE best[1].score_total

\* C30: a committed refine call never lowers the best score of a client: with the
\* registry unchanged, the rank-1 score of every client of the call after the
\* commit is at least the one before, and "improved" counts the clients for which
\* it is strictly greater
C30_RefineNeverLowersBest ==
    [][\A s \in Sess :
          (rs[s].pc = "commit" /\ rs'[s].pc = "done"
              /\ \A i \in DOMAIN calls :
                     calls[i].kind = "refine" => calls[i].reg = registry)
          => LET ds == rs[s].ds
                 cods == Range(rs[s].clientes)
             IN /\ \A cod \in cods :
                       BestScore(matches'[ds], cod) >= BestScore(matches[ds], cod)
                /\ rs'[s].ret.improved =
                       Cardinality({cod \in cods :
                           BestScore(matches'[ds], cod) > BestScore(matches[ds], cod)})]_vars

====
